---- MODULE Spec2Model ----
(***************************************************************************)
(* DropSpot API: the drop allocation engine.                               *)
(*                                                                         *)
(* The state is the content of the database (drops, waitlist_entries,      *)
(* claims), the wall clock, the memoized seed, and one record per request  *)
(* worker holding the position and the locals of the service call it is    *)
(* running.  Every service call that runs inside prisma.$transaction is    *)
(* one step per awaited statement: the statements of a transaction read    *)
(* the committed rows (READ COMMITTED, the default isolation of the        *)
(* store), its writes become visible at the commit step, and a throw       *)
(* rolls the transaction back.                                             *)
(*                                                                         *)
(* Timestamps are counted in ticks of twelve hours; where the code         *)
(* computes in milliseconds the model converts with Ms.                    *)
(***************************************************************************)
EXTENDS Integers, Sequences, FiniteSets, TLC

VARIABLES
  now,        \* the wall clock (new Date()), in ticks
  seedData,   \* SeedGenerator.seedData: {} before generateSeed, else {coefficients}
  drops,      \* table drops: dropId -> row, for the rows that exist
  waitlist,   \* table waitlist_entries: a set of rows, unique on (userId, dropId)
  claims,     \* table claims: a set of rows, unique on (userId, dropId)
  tx,         \* worker -> the service call it runs (position and locals)
  res         \* worker -> {} while a call runs, else {what its last call returned}

vars == <<now, seedData, drops, waitlist, claims, tx, res>>

----------------------------------------------------------------------------
(* Bounds of the model *)

MaxTime == 7
MaxStock == 2

(* Program constants *)

BaseScore == 1000
DefaultScore == 1000
ExpiryHours == 24

MsPerHour == 60 * 60 * 1000
MsPerDay == 1000 * 60 * 60 * 24
TickMs == 12 * MsPerHour
Ms(t) == t * TickMs

Users == {"u1", "u2", "u3"}
Procs == {"p1", "p2"}
DropIds == {"d1", "d2", "d3"}

\* users.createdAt, in ticks: accounts of different age
UserCreatedAt == [u1 |-> -9, u2 |-> 0, u3 |-> -40]

\* the coefficients a generated seed can carry (A in 7..11, B in 13..19, C in 3..5)
SeedChoices == {[A |-> 7, B |-> 13, C |-> 3]}

\* d1 is an active drop; d2 exists but was deactivated; d3 is no row of the table
DropRow(total, active, start) ==
  [totalStock |-> total, claimedStock |-> 0, isActive |-> active,
   startDate |-> start, claimWindowStart |-> 3, claimWindowEnd |-> 5, endDate |-> 6]

----------------------------------------------------------------------------
(* Rows and results *)

Key(r) == <<r.userId, r.dropId>>

\* tx.claim.findUnique({ where: { userId_dropId } })
FindClaim(u, d) == {c \in claims : c.userId = u /\ c.dropId = d}

\* tx.waitlistEntry.findUnique({ where: { userId_dropId } })
FindEntry(u, d) == {e \in waitlist : e.userId = u /\ e.dropId = d}

\* priorityScore || 0
ScoreOrZero(e) == IF e.priorityScore = {} THEN 0 ELSE CHOOSE s \in e.priorityScore : TRUE

\* prisma filter { priorityScore: { gt: x } }: SQL comparison, never true of NULL
ScoreGt(e, x) == \E s \in e.priorityScore : s > x

\* prisma filter { priorityScore: x }: SQL equality, never true of NULL
ScoreEq(e, x) == \E s \in e.priorityScore : s = x

IdleTx == [pc |-> "idle", op |-> "none", userId |-> "none", dropId |-> "none",
           at |-> 0, snap |-> {}, entry |-> {}, claim |-> {}]

Ok(op, u, d, t, value, isNew) ==
  [op |-> op, userId |-> u, dropId |-> d, at |-> t, kind |-> "ok", code |-> "OK",
   value |-> value, isNew |-> isNew, position |-> 0, availableStock |-> 0]

ErrWith(op, u, d, t, code, position, available) ==
  [op |-> op, userId |-> u, dropId |-> d, at |-> t, kind |-> "error", code |-> code,
   value |-> {}, isNew |-> FALSE, position |-> position, availableStock |-> available]

Err(op, u, d, t, code) == ErrWith(op, u, d, t, code, 0, 0)

Idle(p) == tx[p].pc = "idle"
AllIdle == \A p \in Procs : Idle(p)

\* the call of worker p ends: its transaction is over and the caller gets r
Return(p, r) ==
  /\ tx' = [tx EXCEPT ![p] = IdleTx]
  /\ res' = [res EXCEPT ![p] = {r}]

\* worker p starts a call
Start(p, op, u, d, pc, snap) ==
  /\ tx' = [tx EXCEPT ![p] = [IdleTx EXCEPT !.pc = pc, !.op = op, !.userId = u,
                                            !.dropId = d, !.at = now, !.snap = snap]]
  /\ res' = [res EXCEPT ![p] = {}]

Goto(p, pc) == tx' = [tx EXCEPT ![p].pc = pc] /\ res' = res

----------------------------------------------------------------------------
(* ClaimService.claimDrop *)

ClaimWindowNotStarted(t, drop) == t < drop.claimWindowStart
\* C6 variant: the end of the window taken as inclusive
ClaimWindowEndedInclusive(t, drop) == t > drop.claimWindowEnd
ClaimWindowEnded(t, drop) == t >= drop.claimWindowEnd
\* C7 variant: the sold-out gate off by one
SoldOutOffByOne(drop) == drop.claimedStock > drop.totalStock
SoldOut(drop) == drop.claimedStock >= drop.totalStock

\* the code of the error the checks on the loaded drop raise, "" when they pass
ClaimDropGate(d, t) ==
  IF d \notin DOMAIN drops THEN "DROP_NOT_FOUND"
  ELSE IF ~drops[d].isActive THEN "DROP_NOT_ACTIVE"
  ELSE IF ClaimWindowNotStarted(t, drops[d]) THEN "CLAIM_WINDOW_NOT_STARTED"
  ELSE IF ClaimWindowEnded(t, drops[d]) THEN "CLAIM_WINDOW_ENDED"
  ELSE IF SoldOut(drops[d]) THEN "DROP_SOLD_OUT"
  ELSE ""

\* tx.drop.findUnique, then the checks up to the sold-out gate
ClaimDropBegin(p, u, d) ==
  /\ Idle(p)
  /\ IF ClaimDropGate(d, now) # ""
       THEN /\ tx' = tx
            /\ res' = [res EXCEPT ![p] = {Err("claimDrop", u, d, now, ClaimDropGate(d, now))}]
       ELSE Start(p, "claimDrop", u, d, "findClaim", {drops[d]})
  /\ UNCHANGED <<now, seedData, drops, waitlist, claims>>

\* tx.claim.findUnique: an existing claim is returned as it is
ClaimDropFindClaim(p) ==
  /\ tx[p].op = "claimDrop" /\ tx[p].pc = "findClaim"
  /\ LET t == tx[p] IN
       IF FindClaim(t.userId, t.dropId) # {}
         THEN Return(p, Ok("claimDrop", t.userId, t.dropId, t.at,
                           FindClaim(t.userId, t.dropId), FALSE))
         ELSE Goto(p, "findEntry")
  /\ UNCHANGED <<now, seedData, drops, waitlist, claims>>

\* the lookup of the entry without the NOT_IN_WAITLIST error: a user without an
\* entry goes on with an unscored one
ClaimDropFindEntryAnyUser(p) ==
  /\ tx[p].op = "claimDrop" /\ tx[p].pc = "findEntry"
  /\ LET t == tx[p] IN
       tx' = [tx EXCEPT ![p].pc = "count",
                        ![p].entry = IF FindEntry(t.userId, t.dropId) # {}
                                       THEN FindEntry(t.userId, t.dropId)
                                       ELSE {[userId |-> t.userId, dropId |-> t.dropId,
                                              joinedAt |-> now, priorityScore |-> {}]}]
  /\ res' = res
  /\ UNCHANGED <<now, seedData, drops, waitlist, claims>>

\* tx.waitlistEntry.findUnique
ClaimDropFindEntry(p) ==
  /\ tx[p].op = "claimDrop" /\ tx[p].pc = "findEntry"
  /\ LET t == tx[p] IN
       IF FindEntry(t.userId, t.dropId) = {}
         THEN Return(p, Err("claimDrop", t.userId, t.dropId, t.at, "NOT_IN_WAITLIST"))
         ELSE tx' = [tx EXCEPT ![p].pc = "count",
                               ![p].entry = FindEntry(t.userId, t.dropId)]
              /\ res' = res
  /\ UNCHANGED <<now, seedData, drops, waitlist, claims>>

\* the count with the filter gte in place of gt: the entry of the user is counted
higherOrEqualPriorityUsers(d, e) ==
  Cardinality({o \in waitlist : o.dropId = d /\ \E s \in o.priorityScore : s >= ScoreOrZero(e)})

\* tx.waitlistEntry.count({ where: { dropId, priorityScore: { gt: score || 0 } } })
higherPriorityUsers(d, e) ==
  Cardinality({o \in waitlist : o.dropId = d /\ ScoreGt(o, ScoreOrZero(e))})

userPosition(d, e) == higherPriorityUsers(d, e) + 1

availableStock(drop) == drop.totalStock - drop.claimedStock

\* generateClaimCode: a hash of seed, dropId, userId and Date.now()
generateClaimCode(d, u, t) == <<"CLAIM", d, u, t>>

ExpiryTicks == (ExpiryHours * MsPerHour) \div TickMs

\* the data tx.claim.create is given at time t: expiresAt is 24 hours from t
NewClaim(u, d, t) ==
  [id |-> <<u, d, t>>, userId |-> u, dropId |-> d, claimCode |-> generateClaimCode(d, u, t),
   status |-> "PENDING", claimedAt |-> t, expiresAt |-> t + ExpiryTicks]

\* the row the store inserts at time t: id and claimedAt are its defaults
StoredClaim(c, t) == [c EXCEPT !.id = <<c.userId, c.dropId, t>>, !.claimedAt = t]

\* the eligibility check with a NOT_ELIGIBLE error that carries no payload
ClaimDropCountNoPayload(p) ==
  /\ tx[p].op = "claimDrop" /\ tx[p].pc = "count"
  /\ LET t == tx[p]
         e == CHOOSE x \in t.entry : TRUE
         drop == CHOOSE x \in t.snap : TRUE
     IN IF userPosition(t.dropId, e) > availableStock(drop)
          THEN Return(p, Err("claimDrop", t.userId, t.dropId, t.at, "NOT_ELIGIBLE"))
          ELSE tx' = [tx EXCEPT ![p].pc = "create",
                                ![p].claim = {NewClaim(t.userId, t.dropId, now)}]
               /\ res' = res
  /\ UNCHANGED <<now, seedData, drops, waitlist, claims>>

\* the rank query, the eligibility check, and the row of the claim to create
ClaimDropCount(p) ==
  /\ tx[p].op = "claimDrop" /\ tx[p].pc = "count"
  /\ LET t == tx[p]
         e == CHOOSE x \in t.entry : TRUE
         drop == CHOOSE x \in t.snap : TRUE
     IN IF userPosition(t.dropId, e) > availableStock(drop)
          THEN Return(p, ErrWith("claimDrop", t.userId, t.dropId, t.at, "NOT_ELIGIBLE",
                                 userPosition(t.dropId, e), availableStock(drop)))
          ELSE tx' = [tx EXCEPT ![p].pc = "create",
                                ![p].claim = {NewClaim(t.userId, t.dropId, now)}]
               /\ res' = res
  /\ UNCHANGED <<now, seedData, drops, waitlist, claims>>

\* the rows other transactions have inserted into claims and not yet committed
PendingClaimKeys(p) ==
  {Key(c) : c \in UNION {tx[q].claim : q \in {q \in Procs \ {p} :
      tx[q].op = "claimDrop" /\ tx[q].pc \in {"update", "delete", "commit"}}}}

\* tx.claim.create: waits for an uncommitted insert of the same key; fails with
\* P2002 on the unique index claims_userId_dropId_key when the key is committed,
\* and with P2003 on claims_dropId_fkey when the drop is gone
ClaimDropCreate(p) ==
  /\ tx[p].op = "claimDrop" /\ tx[p].pc = "create"
  /\ LET t == tx[p] IN
       /\ <<t.userId, t.dropId>> \notin PendingClaimKeys(p)
       /\ IF FindClaim(t.userId, t.dropId) # {}
            THEN Return(p, Err("claimDrop", t.userId, t.dropId, t.at, "P2002"))
            ELSE IF t.dropId \notin DOMAIN drops
            THEN Return(p, Err("claimDrop", t.userId, t.dropId, t.at, "P2003"))
            ELSE tx' = [tx EXCEPT ![p].pc = "update",
                                  ![p].claim = {StoredClaim(c, now) : c \in t.claim}]
                 /\ res' = res
  /\ UNCHANGED <<now, seedData, drops, waitlist, claims>>

\* the transactions that hold the row lock of drop d (an uncommitted update of it)
DropLockHolders(d) ==
  {q \in Procs : tx[q].op = "claimDrop" /\ tx[q].dropId = d /\ tx[q].pc \in {"delete", "commit"}}

\* tx.drop.update({ claimedStock: { increment: 1 } }): takes the row lock
ClaimDropUpdate(p) ==
  /\ tx[p].op = "claimDrop" /\ tx[p].pc = "update"
  /\ DropLockHolders(tx[p].dropId) = {}
  /\ Goto(p, "delete")
  /\ UNCHANGED <<now, seedData, drops, waitlist, claims>>

\* tx.waitlistEntry.delete: P2025 when the row is gone
ClaimDropDelete(p) ==
  /\ tx[p].op = "claimDrop" /\ tx[p].pc = "delete"
  /\ LET t == tx[p] IN
       IF FindEntry(t.userId, t.dropId) = {}
         THEN Return(p, Err("claimDrop", t.userId, t.dropId, t.at, "P2025"))
         ELSE Goto(p, "commit")
  /\ UNCHANGED <<now, seedData, drops, waitlist, claims>>

\* C14 variant: the commit without the delete of the waitlist entry
ClaimDropCommitKeepEntry(p) ==
  /\ tx[p].op = "claimDrop" /\ tx[p].pc = "commit"
  /\ LET t == tx[p] IN
       /\ claims' = claims \cup t.claim
       /\ drops' = [drops EXCEPT ![t.dropId].claimedStock = @ + 1]
       /\ Return(p, Ok("claimDrop", t.userId, t.dropId, t.at, t.claim, TRUE))
  /\ UNCHANGED <<now, seedData, waitlist>>

\* the commit without the increment of claimedStock
ClaimDropCommitNoIncrement(p) ==
  /\ tx[p].op = "claimDrop" /\ tx[p].pc = "commit"
  /\ LET t == tx[p] IN
       /\ claims' = claims \cup t.claim
       /\ waitlist' = waitlist \ FindEntry(t.userId, t.dropId)
       /\ Return(p, Ok("claimDrop", t.userId, t.dropId, t.at, t.claim, TRUE))
  /\ UNCHANGED <<now, seedData, drops>>

\* the commit: the three writes become visible together
ClaimDropCommit(p) ==
  /\ tx[p].op = "claimDrop" /\ tx[p].pc = "commit"
  /\ LET t == tx[p] IN
       /\ claims' = claims \cup t.claim
       /\ drops' = [drops EXCEPT ![t.dropId].claimedStock = @ + 1]
       /\ waitlist' = waitlist \ FindEntry(t.userId, t.dropId)
       /\ Return(p, Ok("claimDrop", t.userId, t.dropId, t.at, t.claim, TRUE))
  /\ UNCHANGED <<now, seedData>>

claimDrop(p) ==
  \/ ClaimDropFindClaim(p)
  \/ ClaimDropFindEntry(p)
  \/ ClaimDropCount(p)
  \/ ClaimDropCreate(p)
  \/ ClaimDropUpdate(p)
  \/ ClaimDropDelete(p)
  \/ ClaimDropCommit(p)

----------------------------------------------------------------------------
(* ClaimService.completeClaim *)

\* C17 variant: a claim counts as expired at the instant expiresAt already
ExpiredAtDeadline(t, c) == t >= c.expiresAt

\* now > claim.expiresAt
Expired(t, c) == t > c.expiresAt

\* the rows of claims an open completeClaim transaction has updated (row locks)
ClaimLockIds(p) ==
  {c.id : c \in UNION {tx[q].claim : q \in {q \in Procs \ {p} :
      tx[q].op = "completeClaim" /\ tx[q].pc = "commit"}}}

\* tx.claim.findUnique and the checks on the status and the expiry
CompleteClaimBegin(p, u, d) ==
  /\ Idle(p)
  /\ LET found == FindClaim(u, d)
         c == CHOOSE x \in found : TRUE
     IN IF found = {}
          THEN tx' = tx /\ res' = [res EXCEPT ![p] = {Err("completeClaim", u, d, now, "Claim not found")}]
          ELSE IF c.status = "COMPLETED"
          THEN tx' = tx /\ res' = [res EXCEPT ![p] = {Ok("completeClaim", u, d, now, found, FALSE)}]
          ELSE IF c.status = "EXPIRED"
          THEN tx' = tx /\ res' = [res EXCEPT ![p] = {Err("completeClaim", u, d, now, "Claim has expired")}]
          ELSE tx' = [tx EXCEPT ![p] = [IdleTx EXCEPT
                          !.pc = IF Expired(now, c) THEN "markExpired" ELSE "markCompleted",
                          !.op = "completeClaim", !.userId = u, !.dropId = d,
                          !.at = now, !.claim = found]]
               /\ res' = [res EXCEPT ![p] = {}]
  /\ UNCHANGED <<now, seedData, drops, waitlist, claims>>

\* tx.claim.update({ status: 'EXPIRED' }) followed by the throw: the transaction is
\* rolled back, and the update with it
CompleteClaimMarkExpired(p) ==
  /\ tx[p].op = "completeClaim" /\ tx[p].pc = "markExpired"
  /\ \A c \in tx[p].claim : c.id \notin ClaimLockIds(p)
  /\ Return(p, Err("completeClaim", tx[p].userId, tx[p].dropId, tx[p].at, "Claim has expired"))
  /\ UNCHANGED <<now, seedData, drops, waitlist, claims>>

\* tx.claim.update({ where: { id }, data: { status: 'COMPLETED' } })
CompleteClaimMarkCompleted(p) ==
  /\ tx[p].op = "completeClaim" /\ tx[p].pc = "markCompleted"
  /\ \A c \in tx[p].claim : c.id \notin ClaimLockIds(p)
  /\ tx' = [tx EXCEPT ![p].pc = "commit",
                      ![p].claim = {[c EXCEPT !.status = "COMPLETED"] :
                                      c \in {x \in claims : x.id \in {y.id : y \in tx[p].claim}}}]
  /\ res' = res
  /\ UNCHANGED <<now, seedData, drops, waitlist, claims>>

\* the commit: the updated row replaces the stored one
CompleteClaimCommit(p) ==
  /\ tx[p].op = "completeClaim" /\ tx[p].pc = "commit"
  /\ claims' = {c \in claims : c.id \notin {y.id : y \in tx[p].claim}} \cup tx[p].claim
  /\ Return(p, Ok("completeClaim", tx[p].userId, tx[p].dropId, tx[p].at, tx[p].claim, FALSE))
  /\ UNCHANGED <<now, seedData, drops, waitlist>>

completeClaim(p) ==
  \/ CompleteClaimMarkExpired(p)
  \/ CompleteClaimMarkCompleted(p)
  \/ CompleteClaimCommit(p)

----------------------------------------------------------------------------
(* ClaimService.cleanupExpiredClaims *)

\* C9 variant: the filter without status: 'PENDING'
CleanupMatchesAnyStatus(c, t) == c.expiresAt < t

\* C18 variant: expiresAt: { lte: now }
CleanupMatchesInclusive(c, t) == c.expiresAt <= t /\ c.status = "PENDING"

\* where: { expiresAt: { lt: now }, status: 'PENDING' }
CleanupMatches(c, t) == c.expiresAt < t /\ c.status = "PENDING"

\* prisma.claim.updateMany: one statement outside any transaction; it waits for the
\* row locks of open transactions on the rows it matches
ExpireClaims ==
  /\ \A c \in claims : CleanupMatches(c, now) => c.id \notin ClaimLockIds("none")
  /\ claims' = {IF CleanupMatches(c, now) THEN [c EXCEPT !.status = "EXPIRED"] ELSE c :
                  c \in claims}
  /\ UNCHANGED <<now, seedData, drops, waitlist>>

\* the sweep run on its own, its result dropped
cleanupExpiredClaims ==
  /\ ExpireClaims
  /\ UNCHANGED <<tx, res>>

\* expiredClaims.count
updatedCount(t) == Cardinality({c \in claims : CleanupMatches(c, t)})

\* the sweep called by worker p, which gets { updatedCount }
CleanupExpiredClaimsCall(p) ==
  /\ Idle(p)
  /\ ExpireClaims
  /\ tx' = tx
  /\ res' = [res EXCEPT ![p] =
               {[op |-> "cleanupExpiredClaims", at |-> now, kind |-> "ok",
                 updatedCount |-> updatedCount(now)]}]

----------------------------------------------------------------------------
(* SeedGenerator.calculatePriorityScore and WaitlistService.calculatePriorityScore *)

Max(a, b) == IF a >= b THEN a ELSE b

\* C19 variant: the signup latency added whole
SeedScoreNoModulo(k, base, signupLatencyMs, accountAgeDays, rapidActions) ==
  base + signupLatencyMs + (accountAgeDays % k.B) - (rapidActions % k.C)

\* base + (signupLatencyMs % A) + (accountAgeDays % B) - (rapidActions % C)
SeedScore(k, base, signupLatencyMs, accountAgeDays, rapidActions) ==
  base + (signupLatencyMs % k.A) + (accountAgeDays % k.B) - (rapidActions % k.C)

\* the joins of user u in the hour up to joinedAt, over all drops
rapidActions(u, joinedAt) ==
  Cardinality({e \in waitlist : /\ e.userId = u
                                /\ Ms(e.joinedAt) >= Ms(joinedAt) - MsPerHour
                                /\ Ms(e.joinedAt) <= Ms(joinedAt)})

\* C20 variant: no default score when scoring fails
calculatePriorityScoreNoDefault(u, d, joinedAt) ==
  IF u \notin DOMAIN UserCreatedAt \/ d \notin DOMAIN drops \/ seedData = {}
    THEN 0
    ELSE LET k == CHOOSE x \in seedData : TRUE
             signupLatencyMs == Max(0, Ms(joinedAt) - Ms(drops[d].startDate))
             accountAgeDays == (Ms(joinedAt) - Ms(UserCreatedAt[u])) \div MsPerDay
         IN Max(0, SeedScore(k, BaseScore, signupLatencyMs, accountAgeDays,
                             rapidActions(u, joinedAt)))

calculatePriorityScore(u, d, joinedAt) ==
  IF u \notin DOMAIN UserCreatedAt \/ d \notin DOMAIN drops \/ seedData = {}
    THEN DefaultScore
    ELSE LET k == CHOOSE x \in seedData : TRUE
             signupLatencyMs == Max(0, Ms(joinedAt) - Ms(drops[d].startDate))
             accountAgeDays == (Ms(joinedAt) - Ms(UserCreatedAt[u])) \div MsPerDay
         IN Max(0, SeedScore(k, BaseScore, signupLatencyMs, accountAgeDays,
                             rapidActions(u, joinedAt)))

----------------------------------------------------------------------------
(* WaitlistService.joinWaitlist *)

\* C15 variant: the checks without the one of the waitlist phase
JoinGateAnyPhase(d, t) ==
  IF d \notin DOMAIN drops THEN "Drop not found"
  ELSE IF ~drops[d].isActive THEN "Drop is not active"
  ELSE IF t < drops[d].startDate THEN "Drop has not started yet"
  ELSE IF t >= drops[d].endDate THEN "Drop has ended"
  ELSE IF SoldOut(drops[d]) THEN "Drop is sold out"
  ELSE ""

\* the message of the error the checks on the loaded drop raise, "" when they pass
JoinGate(d, t) ==
  IF d \notin DOMAIN drops THEN "Drop not found"
  ELSE IF ~drops[d].isActive THEN "Drop is not active"
  ELSE IF t < drops[d].startDate THEN "Drop has not started yet"
  ELSE IF t >= drops[d].claimWindowStart
    THEN "Waitlist phase has ended, claim window is active"
  ELSE IF t >= drops[d].endDate THEN "Drop has ended"
  ELSE IF SoldOut(drops[d]) THEN "Drop is sold out"
  ELSE ""

\* tx.drop.findUnique and the checks on the phase of the drop
JoinWaitlistBegin(p, u, d) ==
  /\ Idle(p)
  /\ IF JoinGate(d, now) # ""
       THEN /\ tx' = tx
            /\ res' = [res EXCEPT ![p] = {Err("joinWaitlist", u, d, now, JoinGate(d, now))}]
       ELSE Start(p, "joinWaitlist", u, d, "findEntry", {drops[d]})
  /\ UNCHANGED <<now, seedData, drops, waitlist, claims>>

NewEntry(u, d, joinedAt, score) ==
  [userId |-> u, dropId |-> d, joinedAt |-> joinedAt, priorityScore |-> {score}]

\* C10 variant: no lookup of an existing entry before the insert
JoinWaitlistFindEntryNoCheck(p) ==
  /\ tx[p].op = "joinWaitlist" /\ tx[p].pc = "findEntry"
  /\ tx' = [tx EXCEPT ![p].pc = "score",
                      ![p].entry = {NewEntry(tx[p].userId, tx[p].dropId, now, DefaultScore)}]
  /\ res' = res
  /\ UNCHANGED <<now, seedData, drops, waitlist, claims>>

\* tx.waitlistEntry.findUnique: an existing entry is returned as it is; otherwise
\* joinedAt = new Date()
JoinWaitlistFindEntry(p) ==
  /\ tx[p].op = "joinWaitlist" /\ tx[p].pc = "findEntry"
  /\ LET t == tx[p] IN
       IF FindEntry(t.userId, t.dropId) # {}
         THEN Return(p, Ok("joinWaitlist", t.userId, t.dropId, t.at,
                           FindEntry(t.userId, t.dropId), FALSE))
         ELSE tx' = [tx EXCEPT ![p].pc = "score",
                               ![p].entry = {NewEntry(t.userId, t.dropId, now, DefaultScore)}]
              /\ res' = res
  /\ UNCHANGED <<now, seedData, drops, waitlist, claims>>

\* this.calculatePriorityScore(userId, dropId, joinedAt): its queries run on the
\* global client, outside the transaction
JoinWaitlistScore(p) ==
  /\ tx[p].op = "joinWaitlist" /\ tx[p].pc = "score"
  /\ tx' = [tx EXCEPT ![p].pc = "create",
                      ![p].entry = {[e EXCEPT !.priorityScore =
                                        {calculatePriorityScore(e.userId, e.dropId, e.joinedAt)}] :
                                      e \in tx[p].entry}]
  /\ res' = res
  /\ UNCHANGED <<now, seedData, drops, waitlist, claims>>

\* this.calculatePriorityScore when one of its queries throws: the catch returns
\* the default score
JoinWaitlistScoreFails(p) ==
  /\ tx[p].op = "joinWaitlist" /\ tx[p].pc = "score"
  /\ tx' = [tx EXCEPT ![p].pc = "create",
                      ![p].entry = {[e EXCEPT !.priorityScore = {DefaultScore}] :
                                      e \in tx[p].entry}]
  /\ res' = res
  /\ UNCHANGED <<now, seedData, drops, waitlist, claims>>

\* the rows other transactions have inserted into waitlist_entries and not committed
PendingEntryKeys(p) ==
  {Key(e) : e \in UNION {tx[q].entry : q \in {q \in Procs \ {p} :
      tx[q].op = "joinWaitlist" /\ tx[q].pc = "commit"}}}

\* the insert on a table without the unique index on (userId, dropId)
JoinWaitlistCreateNoUnique(p) ==
  /\ tx[p].op = "joinWaitlist" /\ tx[p].pc = "create"
  /\ Goto(p, "commit")
  /\ UNCHANGED <<now, seedData, drops, waitlist, claims>>

\* tx.waitlistEntry.create: P2002 on waitlist_entries_userId_dropId_key, P2003 on
\* waitlist_entries_dropId_fkey when the drop is gone
JoinWaitlistCreate(p) ==
  /\ tx[p].op = "joinWaitlist" /\ tx[p].pc = "create"
  /\ LET t == tx[p] IN
       /\ <<t.userId, t.dropId>> \notin PendingEntryKeys(p)
       /\ IF FindEntry(t.userId, t.dropId) # {}
            THEN Return(p, Err("joinWaitlist", t.userId, t.dropId, t.at, "P2002"))
            ELSE IF t.dropId \notin DOMAIN drops
            THEN Return(p, Err("joinWaitlist", t.userId, t.dropId, t.at, "P2003"))
            ELSE Goto(p, "commit")
  /\ UNCHANGED <<now, seedData, drops, waitlist, claims>>

JoinWaitlistCommit(p) ==
  /\ tx[p].op = "joinWaitlist" /\ tx[p].pc = "commit"
  /\ waitlist' = waitlist \cup tx[p].entry
  /\ Return(p, Ok("joinWaitlist", tx[p].userId, tx[p].dropId, tx[p].at, tx[p].entry, TRUE))
  /\ UNCHANGED <<now, seedData, drops, claims>>

joinWaitlist(p) ==
  \/ JoinWaitlistFindEntry(p)
  \/ JoinWaitlistScore(p)
  \/ JoinWaitlistCreate(p)
  \/ JoinWaitlistCommit(p)

----------------------------------------------------------------------------
(* WaitlistService.leaveWaitlist *)

\* now >= drop.claimWindowStart
LeaveWindowStarted(t, drop) == t >= drop.claimWindowStart

\* the message of the error the checks on the loaded drop raise, "" when they pass
LeaveGate(d, t) ==
  IF d \notin DOMAIN drops THEN "Drop not found"
  ELSE IF LeaveWindowStarted(t, drops[d])
    THEN "Cannot leave waitlist after claim window has started"
  ELSE ""

\* tx.drop.findUnique and the check of the phase
LeaveWaitlistBegin(p, u, d) ==
  /\ Idle(p)
  /\ IF LeaveGate(d, now) # ""
       THEN /\ tx' = tx
            /\ res' = [res EXCEPT ![p] = {Err("leaveWaitlist", u, d, now, LeaveGate(d, now))}]
       ELSE Start(p, "leaveWaitlist", u, d, "findEntry", {drops[d]})
  /\ UNCHANGED <<now, seedData, drops, waitlist, claims>>

\* C11 variant: leaving without an entry is an error
LeaveWaitlistFindEntryStrict(p) ==
  /\ tx[p].op = "leaveWaitlist" /\ tx[p].pc = "findEntry"
  /\ LET t == tx[p] IN
       IF FindEntry(t.userId, t.dropId) = {}
         THEN Return(p, Err("leaveWaitlist", t.userId, t.dropId, t.at, "Not in waitlist"))
         ELSE tx' = [tx EXCEPT ![p].pc = "delete", ![p].entry = FindEntry(t.userId, t.dropId)]
              /\ res' = res
  /\ UNCHANGED <<now, seedData, drops, waitlist, claims>>

\* tx.waitlistEntry.findUnique: without an entry the call succeeds at once
LeaveWaitlistFindEntry(p) ==
  /\ tx[p].op = "leaveWaitlist" /\ tx[p].pc = "findEntry"
  /\ LET t == tx[p] IN
       IF FindEntry(t.userId, t.dropId) = {}
         THEN Return(p, Ok("leaveWaitlist", t.userId, t.dropId, t.at, {}, FALSE))
         ELSE tx' = [tx EXCEPT ![p].pc = "delete", ![p].entry = FindEntry(t.userId, t.dropId)]
              /\ res' = res
  /\ UNCHANGED <<now, seedData, drops, waitlist, claims>>

\* tx.waitlistEntry.delete: P2025 when the row is gone
LeaveWaitlistDelete(p) ==
  /\ tx[p].op = "leaveWaitlist" /\ tx[p].pc = "delete"
  /\ LET t == tx[p] IN
       IF FindEntry(t.userId, t.dropId) = {}
         THEN Return(p, Err("leaveWaitlist", t.userId, t.dropId, t.at, "P2025"))
         ELSE Goto(p, "commit")
  /\ UNCHANGED <<now, seedData, drops, waitlist, claims>>

\* the commit: the row is removed
LeaveWaitlistCommit(p) ==
  /\ tx[p].op = "leaveWaitlist" /\ tx[p].pc = "commit"
  /\ waitlist' = waitlist \ FindEntry(tx[p].userId, tx[p].dropId)
  /\ Return(p, Ok("leaveWaitlist", tx[p].userId, tx[p].dropId, tx[p].at, tx[p].entry, FALSE))
  /\ UNCHANGED <<now, seedData, drops, claims>>

leaveWaitlist(p) ==
  \/ LeaveWaitlistFindEntry(p)
  \/ LeaveWaitlistDelete(p)
  \/ LeaveWaitlistCommit(p)

----------------------------------------------------------------------------
(* WaitlistService.getWaitlistPosition *)

\* null without an entry, else the count of the entries ranked before it, plus 1
getWaitlistPosition(u, d) ==
  {1 + Cardinality({o \in waitlist :
                      /\ o.dropId = d
                      /\ \/ ScoreGt(o, ScoreOrZero(e))
                         \/ ScoreEq(o, ScoreOrZero(e)) /\ o.joinedAt < e.joinedAt}) :
     e \in FindEntry(u, d)}

GetWaitlistPosition(p, u, d) ==
  /\ Idle(p)
  /\ res' = [res EXCEPT ![p] =
               {[Ok("getWaitlistPosition", u, d, now, getWaitlistPosition(u, d), FALSE)
                   EXCEPT !.position = IF getWaitlistPosition(u, d) = {} THEN 0
                                       ELSE CHOOSE r \in getWaitlistPosition(u, d) : TRUE]}]
  /\ UNCHANGED <<now, seedData, drops, waitlist, claims, tx>>

----------------------------------------------------------------------------
(* The clock *)

\* time passes, up to the instant last
TickTo(last) ==
  /\ now < last
  /\ \E t \in (now + 1)..last : now' = t
  /\ UNCHANGED <<seedData, drops, waitlist, claims, tx, res>>

Tick == TickTo(MaxTime)

----------------------------------------------------------------------------
(* The service called by one request at a time *)

Init ==
  /\ now = 0
  /\ seedData \in {{k} : k \in SeedChoices}
  /\ \E total \in 1..MaxStock :
       drops = [d \in {"d1", "d2"} |-> DropRow(IF d = "d1" THEN total ELSE 1, d = "d1", 1)]
  /\ waitlist = {}
  /\ claims = {}
  /\ tx = [p \in Procs |-> IdleTx]
  /\ res = [p \in Procs |-> {}]

\* the requests of the run: two users on the active drop, one on the other drops
Requests == ({"u1", "u2"} \X {"d1"}) \cup ({"u1"} \X {"d2", "d3"})

Next ==
  \/ \E r \in Requests : JoinWaitlistBegin("p1", r[1], r[2])
  \/ \E r \in Requests : ClaimDropBegin("p1", r[1], r[2])
  \/ \E r \in Requests : CompleteClaimBegin("p1", r[1], r[2])
  \/ joinWaitlist("p1")
  \/ claimDrop("p1")
  \/ completeClaim("p1")
  \/ AllIdle /\ cleanupExpiredClaims
  \/ Tick

Spec == Init /\ [][Next]_vars

----------------------------------------------------------------------------
(* Concurrent claims: the waitlist is filled by one request at a time, then two
   workers run claimDrop transactions whose statements interleave *)

NextConc ==
  \/ \E u \in {"u1", "u2"} : AllIdle /\ JoinWaitlistBegin("p1", u, "d1")
  \/ joinWaitlist("p1")
  \/ \E p \in Procs, u \in {"u1", "u2"} : ClaimDropBegin(p, u, "d1")
  \/ \E p \in Procs : claimDrop(p)
  \/ TickTo(drops["d1"].claimWindowEnd)

SpecConc == Init /\ [][NextConc]_vars

----------------------------------------------------------------------------
(* The scenario of a drop of two units and three waitlisted users with the scores
   50, 40 and 30, joined at distinct times, at the start of the claim window *)

ScenarioWaitlist ==
  {[userId |-> "u1", dropId |-> "d1", joinedAt |-> 0, priorityScore |-> {50}],
   [userId |-> "u2", dropId |-> "d1", joinedAt |-> 1, priorityScore |-> {40}],
   [userId |-> "u3", dropId |-> "d1", joinedAt |-> 2, priorityScore |-> {30}]}

InitScenario ==
  /\ now = 3
  /\ seedData \in {{k} : k \in SeedChoices}
  /\ drops = [d \in {"d1"} |-> DropRow(2, TRUE, 0)]
  /\ waitlist = ScenarioWaitlist
  /\ claims = {}
  /\ tx = [p \in Procs |-> IdleTx]
  /\ res = [p \in Procs |-> {}]

NextScenario ==
  \/ \E u \in Users : ClaimDropBegin("p1", u, "d1")
  \/ claimDrop("p1")
  \/ Tick

SpecScenario == InitScenario /\ [][NextScenario]_vars

----------------------------------------------------------------------------
(* getWaitlistPosition on every waitlist of the drop: each user has no entry or an
   entry with any of the scores (NULL included) and join times *)

MaxJoinedAt == 2

\* waitlist_entries.priorityScore is a nullable INTEGER
ScoreValues == {{}, {0}, {DefaultScore}}

EntryChoices(u) ==
  {{}} \cup {{[userId |-> u, dropId |-> "d1", joinedAt |-> t, priorityScore |-> s]} :
              t \in 1..MaxJoinedAt, s \in ScoreValues}

InitRank ==
  /\ now = 3
  /\ seedData \in {{k} : k \in SeedChoices}
  /\ drops = [d \in {"d1"} |-> DropRow(1, TRUE, 1)]
  /\ \E e1 \in EntryChoices("u1"), e2 \in EntryChoices("u2"), e3 \in EntryChoices("u3") :
       waitlist = e1 \cup e2 \cup e3
  /\ claims = {}
  /\ tx = [p \in Procs |-> IdleTx]
  /\ res = [p \in Procs |-> {}]

NextRank == \E p \in Procs, u \in Users : GetWaitlistPosition(p, u, "d1")

SpecRank == InitRank /\ [][NextRank]_vars

----------------------------------------------------------------------------
(* The life of a waitlist: joins, leaves and claims, one request at a time *)

NextWaitlist ==
  \/ \E r \in Requests : JoinWaitlistBegin("p1", r[1], r[2])
  \/ \E r \in Requests : LeaveWaitlistBegin("p1", r[1], r[2])
  \/ \E r \in Requests : ClaimDropBegin("p1", r[1], r[2])
  \/ joinWaitlist("p1")
  \/ leaveWaitlist("p1")
  \/ claimDrop("p1")
  \/ Tick

SpecWaitlist == Init /\ [][NextWaitlist]_vars

----------------------------------------------------------------------------
(* The life of the claims of the scenario drop: claims, completions and sweeps *)

NextCleanup ==
  \/ \E u \in Users : ClaimDropBegin("p1", u, "d1")
  \/ \E u \in Users : CompleteClaimBegin("p1", u, "d1")
  \/ claimDrop("p1")
  \/ completeClaim("p1")
  \/ CleanupExpiredClaimsCall("p1")
  \/ Tick

SpecCleanup == InitScenario /\ [][NextCleanup]_vars

----------------------------------------------------------------------------
(* Scoring: joins of accounts of different age on several open drops, under every
   seed the generator can produce and without a seed *)

\* A = 7 + (x % 5), B = 13 + (x % 7), C = 3 + (x % 3)
Coefficients == [A : 7..11, B : 13..19, C : 3..5]

ScoreDrops == {"d1", "d2", "d3", "d4"}

\* the joins of a run are made at one instant of 0..MaxScoreTime
MaxScoreTime == 1

InitScoreWith(seeds) ==
  /\ now \in 0..MaxScoreTime
  /\ seedData \in {{}} \cup {{k} : k \in seeds}
  /\ drops = [d \in ScoreDrops |-> DropRow(1, TRUE, 0)]
  /\ waitlist = {}
  /\ claims = {}
  /\ tx = [p \in Procs |-> IdleTx]
  /\ res = [p \in Procs |-> {}]

ScoreRequests == ({"u3"} \X ScoreDrops) \cup ({"u1"} \X {"d1"})

NextScore ==
  \/ \E r \in ScoreRequests : JoinWaitlistBegin("p1", r[1], r[2])
  \/ joinWaitlist("p1")

SpecScore == InitScoreWith(Coefficients) /\ [][NextScore]_vars

\* the same, with scoring queries that can fail
NextScoreFails ==
  \/ NextScore
  \/ JoinWaitlistScoreFails("p1")

SpecScoreFails == InitScoreWith(SeedChoices) /\ [][NextScoreFails]_vars

----------------------------------------------------------------------------
(* SeedGenerator: generateSeed, generateCoefficients, getSeedData, reset *)

\* what the two git commands of generateSeed find: a repository with a remote, a
\* repository without a remote, no repository (git log prints nothing and the
\* pipeline still exits 0), or commands that cannot be run at all
GitEnvs == {"repo", "noremote", "nogit", "noshell"}

RepoUrl == "https://github.com/Developer-Emre/dropspotAPI.git"
RepoFirstCommitEpoch == "1762347416"

\* formatCurrentTime(): YYYYMMDDHHmm of the instant t
formatCurrentTime(t) ==
  <<"202511050000", "202511051200", "202511060000", "202511061200">>[t + 1]

\* Math.floor(Date.now() / 1000).toString() at the instant t
EpochSeconds(t) == <<"1762300800", "1762344000", "1762387200", "1762430400">>[t + 1]

\* the startTime arguments of the callers: none, or a fixed project start
StartTimes == {"", "202501010000"}

\* execSync('git config --get remote.origin.url'), 'local-development' in the catch
remoteUrl(env) == IF env = "repo" THEN RepoUrl ELSE "local-development"

\* execSync('git log --reverse --format=%ct | head -n1'), the clock in the catch
firstCommitEpoch(env, t) ==
  IF env \in {"repo", "noremote"} THEN RepoFirstCommitEpoch
  ELSE IF env = "nogit" THEN ""
  ELSE EpochSeconds(t)

\* crypto.createHash('sha256').update(rawData).digest('hex').substring(0, 12) of
\* rawData = remoteUrl|firstCommitEpoch|projectStartTime, as hex digits
Sha256Table ==
  {[raw |-> <<"https://github.com/Developer-Emre/dropspotAPI.git", "1762347416", "202501010000">>,
    hex |-> <<12, 15, 14, 2, 10, 1, 13, 15, 5, 15, 5, 14>>],
   [raw |-> <<"https://github.com/Developer-Emre/dropspotAPI.git", "1762347416", "202511050000">>,
    hex |-> <<2, 14, 8, 15, 8, 3, 5, 5, 5, 15, 13, 13>>],
   [raw |-> <<"https://github.com/Developer-Emre/dropspotAPI.git", "1762347416", "202511051200">>,
    hex |-> <<10, 0, 4, 12, 6, 11, 10, 12, 2, 0, 4, 13>>],
   [raw |-> <<"https://github.com/Developer-Emre/dropspotAPI.git", "1762347416", "202511060000">>,
    hex |-> <<15, 1, 15, 5, 2, 1, 1, 3, 9, 5, 3, 11>>],
   [raw |-> <<"https://github.com/Developer-Emre/dropspotAPI.git", "1762347416", "202511061200">>,
    hex |-> <<5, 6, 3, 12, 5, 10, 8, 13, 8, 14, 3, 5>>],
   [raw |-> <<"local-development", "1762347416", "202501010000">>,
    hex |-> <<1, 6, 12, 4, 5, 11, 0, 14, 8, 8, 9, 2>>],
   [raw |-> <<"local-development", "1762347416", "202511050000">>,
    hex |-> <<14, 4, 2, 11, 8, 3, 13, 14, 3, 6, 12, 11>>],
   [raw |-> <<"local-development", "1762347416", "202511051200">>,
    hex |-> <<2, 15, 5, 15, 11, 10, 10, 3, 1, 12, 7, 14>>],
   [raw |-> <<"local-development", "1762347416", "202511060000">>,
    hex |-> <<5, 5, 6, 7, 8, 2, 6, 3, 9, 0, 6, 7>>],
   [raw |-> <<"local-development", "1762347416", "202511061200">>,
    hex |-> <<10, 0, 10, 10, 10, 8, 2, 1, 10, 10, 0, 5>>],
   [raw |-> <<"local-development", "", "202501010000">>,
    hex |-> <<7, 8, 8, 7, 4, 0, 5, 5, 9, 8, 2, 3>>],
   [raw |-> <<"local-development", "", "202511050000">>,
    hex |-> <<13, 11, 14, 7, 5, 1, 6, 10, 4, 1, 5, 3>>],
   [raw |-> <<"local-development", "", "202511051200">>,
    hex |-> <<2, 9, 11, 4, 9, 11, 11, 13, 2, 4, 1, 8>>],
   [raw |-> <<"local-development", "", "202511060000">>,
    hex |-> <<8, 14, 0, 7, 8, 12, 14, 1, 11, 13, 0, 3>>],
   [raw |-> <<"local-development", "", "202511061200">>,
    hex |-> <<12, 1, 15, 7, 1, 8, 0, 6, 13, 8, 13, 13>>],
   [raw |-> <<"local-development", "1762300800", "202501010000">>,
    hex |-> <<8, 4, 5, 6, 14, 4, 12, 6, 7, 8, 8, 9>>],
   [raw |-> <<"local-development", "1762300800", "202511050000">>,
    hex |-> <<3, 3, 3, 3, 3, 0, 11, 10, 10, 0, 4, 13>>],
   [raw |-> <<"local-development", "1762344000", "202501010000">>,
    hex |-> <<10, 6, 7, 1, 10, 6, 11, 4, 11, 4, 9, 0>>],
   [raw |-> <<"local-development", "1762344000", "202511051200">>,
    hex |-> <<9, 1, 0, 4, 11, 7, 0, 5, 8, 7, 10, 7>>],
   [raw |-> <<"local-development", "1762387200", "202501010000">>,
    hex |-> <<0, 3, 0, 11, 2, 4, 8, 13, 6, 13, 6, 4>>],
   [raw |-> <<"local-development", "1762387200", "202511060000">>,
    hex |-> <<9, 13, 8, 5, 13, 9, 2, 1, 6, 6, 10, 4>>],
   [raw |-> <<"local-development", "1762430400", "202501010000">>,
    hex |-> <<15, 5, 13, 1, 7, 8, 3, 0, 15, 13, 3, 14>>],
   [raw |-> <<"local-development", "1762430400", "202511061200">>,
    hex |-> <<2, 5, 5, 14, 3, 10, 5, 1, 11, 10, 9, 1>>]}

Sha256Hex12(raw) == (CHOOSE r \in Sha256Table : r.raw = raw).hex

\* parseInt(seed.substring(i, i + 2), 16)
HexWindow(seed, i) == 16 * seed[i + 1] + seed[i + 2]

\* generateCoefficients with every window reduced modulo the width of its
\* range plus one
generateCoefficientsWide(seed) ==
  [A |-> 7 + (HexWindow(seed, 0) % 6),
   B |-> 13 + (HexWindow(seed, 2) % 8),
   C |-> 3 + (HexWindow(seed, 4) % 4)]

generateCoefficients(seed) ==
  [A |-> 7 + (HexWindow(seed, 0) % 5),
   B |-> 13 + (HexWindow(seed, 2) % 7),
   C |-> 3 + (HexWindow(seed, 4) % 3)]

\* the SeedData generateSeed builds at the instant t
NewSeedData(startTime, env, t) ==
  LET projectStartTime == IF startTime # "" THEN startTime ELSE formatCurrentTime(t)
      raw == <<remoteUrl(env), firstCommitEpoch(env, t), projectStartTime>>
      seed == Sha256Hex12(raw)
      k == generateCoefficients(seed)
  IN [seed |-> seed, A |-> k.A, B |-> k.B, C |-> k.C,
      projectStartTime |-> projectStartTime, remoteUrl |-> raw[1],
      firstCommitEpoch |-> raw[2]]

SeedResult(op, startTime, env, value) ==
  [op |-> op, at |-> now, startTime |-> startTime, env |-> env, kind |-> "ok",
   value |-> value]

\* generateSeed without its early return of this.seedData
generateSeedNoMemo(p, startTime, env) ==
  /\ Idle(p)
  /\ seedData' = {NewSeedData(startTime, env, now)}
  /\ res' = [res EXCEPT ![p] = {SeedResult("generateSeed", startTime, env, seedData')}]
  /\ UNCHANGED <<now, drops, waitlist, claims, tx>>

\* generateSeed(startTime?): the memoized SeedData, or a new one
generateSeed(p, startTime, env) ==
  /\ Idle(p)
  /\ seedData' = IF seedData # {} THEN seedData ELSE {NewSeedData(startTime, env, now)}
  /\ res' = [res EXCEPT ![p] = {SeedResult("generateSeed", startTime, env, seedData')}]
  /\ UNCHANGED <<now, drops, waitlist, claims, tx>>

\* getSeedData(): this.seedData, null before generateSeed
getSeedData(p) ==
  /\ Idle(p)
  /\ res' = [res EXCEPT ![p] = {SeedResult("getSeedData", "", "", seedData)}]
  /\ UNCHANGED <<now, seedData, drops, waitlist, claims, tx>>

\* reset(): this.seedData = null
reset(p) ==
  /\ Idle(p)
  /\ seedData' = {}
  /\ res' = [res EXCEPT ![p] = {SeedResult("reset", "", "", {})}]
  /\ UNCHANGED <<now, drops, waitlist, claims, tx>>

\* the last instant of the calls on the generator
MaxSeedTime == 1

InitSeed ==
  /\ now = 0
  /\ seedData = {}
  /\ drops = [d \in {"d1"} |-> DropRow(1, TRUE, 1)]
  /\ waitlist = {}
  /\ claims = {}
  /\ tx = [p \in Procs |-> IdleTx]
  /\ res = [p \in Procs |-> {}]

NextSeed ==
  \/ \E p \in Procs, st \in StartTimes, env \in GitEnvs : generateSeed(p, st, env)
  \/ \E p \in Procs : getSeedData(p)
  \/ \E p \in Procs : reset(p)
  \/ TickTo(MaxSeedTime)

SpecSeed == InitSeed /\ [][NextSeed]_vars

----------------------------------------------------------------------------
(* generateCoefficients over a range of seeds *)

\* the values of a two-hex-digit window: the MaxWindow + 1 lowest and highest
MaxWindow == 7
WindowBytes == (0..MaxWindow) \cup ((255 - MaxWindow)..255)

\* the last six hex digits of a seed, which generateCoefficients does not read
SeedTails == {<<0, 0, 0, 0, 0, 0>>, <<15, 14, 13, 12, 11, 10>>}

\* the 12 hex digits whose windows at offsets 0, 2 and 4 are a, b and c
SeedOf(a, b, c, tail) ==
  <<a \div 16, a % 16, b \div 16, b % 16, c \div 16, c % 16>> \o tail

CoefficientSeeds ==
  {SeedOf(a, b, c, tail) : a \in WindowBytes, b \in WindowBytes, c \in WindowBytes,
                           tail \in SeedTails}

\* the caller p holds one seed
InitCoefficients ==
  /\ now = 0
  /\ seedData = {}
  /\ drops = [d \in {"d1"} |-> DropRow(1, TRUE, 1)]
  /\ waitlist = {}
  /\ claims = {}
  /\ \E seed \in CoefficientSeeds :
       tx = [p \in Procs |-> IF p = "p1" THEN [IdleTx EXCEPT !.snap = {seed}] ELSE IdleTx]
  /\ res = [p \in Procs |-> {}]

GenerateCoefficientsCall(p) ==
  /\ Idle(p) /\ res[p] = {}
  /\ \E seed \in tx[p].snap :
       res' = [res EXCEPT ![p] = {[op |-> "generateCoefficients", at |-> now,
                                   kind |-> "ok", seed |-> seed,
                                   value |-> generateCoefficients(seed)]}]
  /\ UNCHANGED <<now, seedData, drops, waitlist, claims, tx>>

NextCoefficients == GenerateCoefficientsCall("p1")

SpecCoefficients == InitCoefficients /\ [][NextCoefficients]_vars

----------------------------------------------------------------------------
(* DropController.deleteDrop *)

Admin == "admin"

\* existingDrop.waitlistEntries.length > 0 || existingDrop.claims.length > 0
HasChildren(d) ==
  \/ \E e \in waitlist : e.dropId = d
  \/ \E c \in claims : c.dropId = d

\* prisma.drop.findUnique({ include: { waitlistEntries, claims } }) and the checks
DeleteDropBegin(p, d) ==
  /\ Idle(p)
  /\ IF d \notin DOMAIN drops
       THEN tx' = tx /\ res' = [res EXCEPT ![p] = {Err("deleteDrop", Admin, d, now, "Drop not found")}]
       ELSE IF HasChildren(d)
       THEN tx' = tx /\ res' = [res EXCEPT ![p] = {Err("deleteDrop", Admin, d, now,
                          "Cannot delete drop with existing waitlist entries or claims")}]
       ELSE Start(p, "deleteDrop", Admin, d, "delete", {drops[d]})
  /\ UNCHANGED <<now, seedData, drops, waitlist, claims>>

\* the transactions that have inserted a row referring to drop d and not yet
\* committed: each holds a key-share lock on the row of d
DropKeyShareHolders(d) ==
  {q \in Procs :
     /\ tx[q].dropId = d
     /\ \/ tx[q].op = "joinWaitlist" /\ tx[q].pc = "commit"
        \/ tx[q].op = "claimDrop" /\ tx[q].pc \in {"update", "delete", "commit"}}

\* prisma.drop.delete, a statement of its own: it waits for the locks on the row;
\* the rows that refer to the drop go with it (ON DELETE CASCADE)
DeleteDropDelete(p) ==
  /\ tx[p].op = "deleteDrop" /\ tx[p].pc = "delete"
  /\ DropKeyShareHolders(tx[p].dropId) = {}
  /\ LET d == tx[p].dropId IN
       IF d \notin DOMAIN drops
         THEN /\ Return(p, Err("deleteDrop", Admin, d, tx[p].at,
                               "Internal server error while deleting drop"))
              /\ UNCHANGED <<drops, waitlist, claims>>
         ELSE /\ drops' = [x \in DOMAIN drops \ {d} |-> drops[x]]
              /\ waitlist' = {e \in waitlist : e.dropId # d}
              /\ claims' = {c \in claims : c.dropId # d}
              /\ Return(p, Ok("deleteDrop", Admin, d, tx[p].at, {}, FALSE))
  /\ UNCHANGED <<now, seedData>>

deleteDrop(p) == DeleteDropDelete(p)

----------------------------------------------------------------------------
(* An administrator deletes drops while users join and claim *)

NextDelete ==
  \/ \E u \in {"u1", "u2"} : JoinWaitlistBegin("p1", u, "d1")
  \/ \E u \in {"u1", "u2"} : ClaimDropBegin("p1", u, "d1")
  \/ joinWaitlist("p1")
  \/ claimDrop("p1")
  \/ DeleteDropBegin("p2", "d1")
  \/ deleteDrop("p2")
  \/ Tick

SpecDelete == Init /\ [][NextDelete]_vars

----------------------------------------------------------------------------
(* DropController.createDrop and DropController.updateDrop *)

\* the largest totalStock the validators accept
MaxTotalStock == 10000

\* the request bodies of createDrop: the stock and the start date vary, the claim
\* window and the end date are those of DropRow
CreateBodies == [totalStock : 0..MaxStock, startDate : {1}]

\* createDropValidation: the stock within 1..10000, the start date in the future,
\* the dates in order
createDropValidation(body, t) ==
  LET row == DropRow(body.totalStock, TRUE, body.startDate) IN
    /\ body.totalStock \in 1..MaxTotalStock
    /\ row.startDate > t
    /\ row.endDate > row.startDate
    /\ row.claimWindowStart >= row.startDate
    /\ row.claimWindowEnd > row.claimWindowStart
    /\ row.claimWindowEnd <= row.endDate
    /\ Ms(row.claimWindowEnd) - Ms(row.claimWindowStart) >= MsPerHour

\* prisma.drop.create with claimedStock: 0; the store gives the row a new id
createDrop(p, body) ==
  /\ Idle(p)
  /\ tx' = tx
  /\ IF ~createDropValidation(body, now)
       THEN /\ res' = [res EXCEPT ![p] = {Err("createDrop", Admin, "none", now, "Validation failed")}]
            /\ drops' = drops
       ELSE \E d \in DropIds \ DOMAIN drops :
              /\ drops' = [x \in DOMAIN drops \cup {d} |->
                             IF x = d THEN DropRow(body.totalStock, TRUE, body.startDate)
                             ELSE drops[x]]
              /\ res' = [res EXCEPT ![p] = {Ok("createDrop", Admin, d, now, {drops'[d]}, TRUE)}]
  /\ UNCHANGED <<now, seedData, waitlist, claims>>

\* the request bodies of updateDrop: each field is optional, and the body is
\* passed to prisma.drop.update as it is
UpdateBodies ==
  {[totalStock |-> {n}, claimedStock |-> {}] : n \in 0..MaxStock}
    \cup {[totalStock |-> {}, claimedStock |-> {n}] : n \in {0, MaxStock + 1}}

\* updateDropValidation: totalStock, when given, within 1..10000; its custom
\* check against the claimed stock returns true; no rule for claimedStock
updateDropValidation(body) == \A n \in body.totalStock : n \in 1..MaxTotalStock

\* the validation and prisma.drop.findUnique
UpdateDropBegin(p, d, body) ==
  /\ Idle(p)
  /\ IF ~updateDropValidation(body)
       THEN tx' = tx /\ res' = [res EXCEPT ![p] = {Err("updateDrop", Admin, d, now, "Validation failed")}]
       ELSE IF d \notin DOMAIN drops
       THEN tx' = tx /\ res' = [res EXCEPT ![p] = {Err("updateDrop", Admin, d, now, "Drop not found")}]
       ELSE Start(p, "updateDrop", Admin, d, "update", {body})
  /\ UNCHANGED <<now, seedData, drops, waitlist, claims>>

\* the row of drop with the fields of the body written over it
UpdatedDrop(drop, body) ==
  [drop EXCEPT
     !.totalStock = IF body.totalStock = {} THEN @ ELSE CHOOSE n \in body.totalStock : TRUE,
     !.claimedStock = IF body.claimedStock = {} THEN @ ELSE CHOOSE n \in body.claimedStock : TRUE]

\* prisma.drop.update({ where: { id }, data: processedUpdateData })
UpdateDropUpdate(p) ==
  /\ tx[p].op = "updateDrop" /\ tx[p].pc = "update"
  /\ DropLockHolders(tx[p].dropId) = {}
  /\ LET d == tx[p].dropId
         body == CHOOSE b \in tx[p].snap : TRUE
     IN IF d \notin DOMAIN drops
          THEN /\ Return(p, Err("updateDrop", Admin, d, tx[p].at,
                                "Internal server error while updating drop"))
               /\ drops' = drops
          ELSE /\ drops' = [drops EXCEPT ![d] = UpdatedDrop(@, body)]
               /\ Return(p, Ok("updateDrop", Admin, d, tx[p].at, {drops'[d]}, FALSE))
  /\ UNCHANGED <<now, seedData, waitlist, claims>>

updateDrop(p) == UpdateDropUpdate(p)

----------------------------------------------------------------------------
(* The drops administered while users join, leave, claim and complete, one
   request at a time *)

AdminRequests == {"u1"} \X {"d1"}

NextAdmin ==
  \/ \E body \in CreateBodies : createDrop("p1", body)
  \/ \E body \in UpdateBodies : UpdateDropBegin("p1", "d1", body)
  \/ updateDrop("p1")
  \/ \E r \in AdminRequests : JoinWaitlistBegin("p1", r[1], r[2])
  \/ \E r \in AdminRequests : LeaveWaitlistBegin("p1", r[1], r[2])
  \/ \E r \in AdminRequests : ClaimDropBegin("p1", r[1], r[2])
  \/ \E r \in AdminRequests : CompleteClaimBegin("p1", r[1], r[2])
  \/ joinWaitlist("p1")
  \/ leaveWaitlist("p1")
  \/ claimDrop("p1")
  \/ completeClaim("p1")
  \/ CleanupExpiredClaimsCall("p1")
  \/ Tick

SpecAdmin == Init /\ [][NextAdmin]_vars

----------------------------------------------------------------------------
(* The periodic sweep running beside the requests on the claims of the scenario drop *)

NextSweep ==
  \/ \E u \in Users : ClaimDropBegin("p1", u, "d1")
  \/ \E u \in Users : CompleteClaimBegin("p1", u, "d1")
  \/ claimDrop("p1")
  \/ completeClaim("p1")
  \/ CleanupExpiredClaimsCall("p2")
  \/ Tick

SpecSweep == InitScenario /\ [][NextSweep]_vars

----------------------------------------------------------------------------
(* Concurrent joins of one drop *)

NextJoinConc ==
  \/ \E p \in Procs, u \in {"u1", "u2"} : JoinWaitlistBegin(p, u, "d1")
  \/ \E p \in Procs : joinWaitlist(p)
  \/ TickTo(drops["d1"].claimWindowStart)

SpecJoinConc == Init /\ [][NextJoinConc]_vars

----------------------------------------------------------------------------
(* Concurrent joins of one user on two drops *)

ScoreConcRequests == ({"u3"} \X {"d1", "d2"}) \cup ({"u1"} \X {"d1"})

NextScoreConc ==
  \/ \E p \in Procs, r \in ScoreConcRequests : JoinWaitlistBegin(p, r[1], r[2])
  \/ \E p \in Procs : joinWaitlist(p)

SpecScoreConc == InitScoreWith(SeedChoices) /\ [][NextScoreConc]_vars

----------------------------------------------------------------------------
(* Concurrent claims and completions on the scenario drop, with the sweep *)

NextClaims ==
  \/ \E p \in Procs : ClaimDropBegin(p, "u1", "d1")
  \/ ClaimDropBegin("p1", "u2", "d1")
  \/ CompleteClaimBegin("p2", "u1", "d1")
  \/ \E p \in Procs : claimDrop(p)
  \/ completeClaim("p2")
  \/ cleanupExpiredClaims
  \/ Tick

SpecClaims == InitScenario /\ [][NextClaims]_vars

----------------------------------------------------------------------------
(* The claim phase of a drop: every waitlisted user keeps calling claimDrop, one
   call at a time, while the claim window is open *)

\* the waitlists of the drop at the start of its claim window
ProgressEntries(u) ==
  {{}} \cup {{[userId |-> u, dropId |-> "d1", joinedAt |-> 1, priorityScore |-> s]} :
              s \in ScoreValues}

InitProgress ==
  /\ now = 3
  /\ seedData \in {{k} : k \in SeedChoices}
  /\ \E total \in 1..MaxStock : drops = [d \in {"d1"} |-> DropRow(total, TRUE, 1)]
  /\ \E e1 \in ProgressEntries("u1"), e2 \in ProgressEntries("u2"),
        e3 \in ProgressEntries("u3") : waitlist = e1 \cup e2 \cup e3
  /\ claims = {}
  /\ tx = [p \in Procs |-> IdleTx]
  /\ res = [p \in Procs |-> {}]

\* the last instant before the end of the claim window
LastClaimInstant == DropRow(1, TRUE, 1).claimWindowEnd - 1

\* a user on the waitlist of d1 calls claimDrop
ClaimAttempt(u) == FindEntry(u, "d1") # {} /\ ClaimDropBegin("p1", u, "d1")

NextProgress ==
  \/ \E u \in Users : ClaimAttempt(u)
  \/ claimDrop("p1")
  \/ TickTo(LastClaimInstant)

\* a call that has started runs to its end, and each waitlisted user calls again
\* and again: a call can start only between the calls of the others
SpecProgress ==
  /\ InitProgress /\ [][NextProgress]_vars
  /\ WF_vars(claimDrop("p1"))
  /\ \A u \in Users : SF_vars(ClaimAttempt(u))

----------------------------------------------------------------------------
(* ClaimService.getClaimStatus and ClaimService.getUserClaims *)

\* the claim as the reads report it at time t: isExpired = now > claim.expiresAt,
\* status: isExpired ? 'EXPIRED' : claim.status
ReportedClaim(c, t) ==
  [id |-> c.id, dropId |-> c.dropId, claimCode |-> c.claimCode,
   status |-> IF Expired(t, c) THEN "EXPIRED" ELSE c.status,
   claimedAt |-> c.claimedAt, expiresAt |-> c.expiresAt, isExpired |-> Expired(t, c)]

\* prisma.claim.findUnique({ where: { userId_dropId } }); hasClaim: false without a row
getClaimStatus(p, u, d) ==
  /\ Idle(p)
  /\ res' = [res EXCEPT ![p] =
               {Ok("getClaimStatus", u, d, now,
                   {ReportedClaim(c, now) : c \in FindClaim(u, d)}, FALSE)}]
  /\ UNCHANGED <<now, seedData, drops, waitlist, claims, tx>>

\* prisma.claim.findMany({ where: { userId } })
getUserClaims(p, u) ==
  /\ Idle(p)
  /\ res' = [res EXCEPT ![p] =
               {Ok("getUserClaims", u, "none", now,
                   {ReportedClaim(c, now) : c \in {x \in claims : x.userId = u}}, FALSE)}]
  /\ UNCHANGED <<now, seedData, drops, waitlist, claims, tx>>

----------------------------------------------------------------------------
(* The claims of the scenario drop read while they are made and completed *)

NextStatus ==
  \/ \E u \in {"u1", "u2"} : ClaimDropBegin("p1", u, "d1")
  \/ CompleteClaimBegin("p1", "u1", "d1")
  \/ claimDrop("p1")
  \/ completeClaim("p1")
  \/ \E u \in {"u1", "u2"} : getClaimStatus("p2", u, "d1")
  \/ getUserClaims("p2", "u1")
  \/ Tick

SpecStatus == InitScenario /\ [][NextStatus]_vars

----------------------------------------------------------------------------
(* WaitlistService.getWaitlist *)

\* orderBy: [{ priorityScore: 'desc' }, { joinedAt: 'asc' }]: x sorts strictly
\* before y; in a descending order the store puts the NULL scores first
ListBefore(x, y) ==
  \/ x.priorityScore = {} /\ y.priorityScore # {}
  \/ \E sx \in x.priorityScore, sy \in y.priorityScore : sx > sy
  \/ x.priorityScore = y.priorityScore /\ x.joinedAt < y.joinedAt

\* the orders in which the store can return the entries of drop d: rows that the
\* orderBy does not tell apart come in any order
ListOrders(d) ==
  LET rows == {e \in waitlist : e.dropId = d}
      n == Cardinality(rows)
  IN {seq \in [1..n -> rows] :
        /\ \A i \in 1..n, j \in 1..n : i # j => seq[i] # seq[j]
        /\ \A i \in 1..n, j \in 1..n : i < j => ~ListBefore(seq[j], seq[i])}

\* the pages and the page sizes of the calls
MaxPage == 2
MaxLimit == 2

\* findMany with skip and take, and count, then position: skip + index + 1
getWaitlist(p, d, page, limit) ==
  /\ Idle(p)
  /\ \E seq \in ListOrders(d) :
       LET skip == (page - 1) * limit
           total == Cardinality({e \in waitlist : e.dropId = d})
           taken == {i \in 1..Len(seq) : i > skip /\ i <= skip + limit}
       IN res' = [res EXCEPT ![p] =
                    {[op |-> "getWaitlist", dropId |-> d, at |-> now, kind |-> "ok",
                      page |-> page, limit |-> limit, total |-> total,
                      value |-> {[userId |-> seq[i].userId, position |-> i] : i \in taken}]}]
  /\ UNCHANGED <<now, seedData, drops, waitlist, claims, tx>>

NextList ==
  \E p \in Procs, page \in 1..MaxPage, limit \in 1..MaxLimit : getWaitlist(p, "d1", page, limit)

SpecList == InitRank /\ [][NextList]_vars

----------------------------------------------------------------------------
(* ClaimController.claimDrop: the answer of POST /drops/:id/claim *)

\* a claim counts as new when claimedAt is within the last RecentClaimMs
RecentClaimMs == 5000

\* result.claim.claimedAt.getTime() > Date.now() - 5000 ? 201 : 200
statusCode(c, t) == IF Ms(c.claimedAt) > Ms(t) - RecentClaimMs THEN 201 ELSE 200

\* every result of ClaimService.claimDrop has been answered
Responded == \A p \in Procs : \A r \in res[p] : r.op = "claimDrop" => r.kind = "error"

\* res.status(statusCode).json(...) on the result the service returned
ClaimControllerRespond(p) ==
  /\ Idle(p)
  /\ \E r \in res[p] :
       /\ r.op = "claimDrop" /\ r.kind = "ok"
       /\ \E c \in r.value :
            res' = [res EXCEPT ![p] =
                      {[op |-> "claimResponse", userId |-> r.userId, dropId |-> r.dropId,
                        at |-> now, kind |-> "ok", isNew |-> r.isNew, value |-> r.value,
                        statusCode |-> statusCode(c, now),
                        message |-> IF statusCode(c, now) = 201
                                      THEN "Successfully claimed drop"
                                      ELSE "Drop already claimed"]}]
  /\ UNCHANGED <<now, seedData, drops, waitlist, claims, tx>>

\* the requests of the users of the scenario drop, each answered before the next
\* one and before time passes
NextEndpoint ==
  \/ \E u \in Users : Responded /\ ClaimDropBegin("p1", u, "d1")
  \/ claimDrop("p1")
  \/ ClaimControllerRespond("p1")
  \/ AllIdle /\ Responded /\ Tick

SpecEndpoint == InitScenario /\ [][NextEndpoint]_vars

----------------------------------------------------------------------------
(* Properties *)

InClaimWindow(t, d) == drops[d].claimWindowStart <= t /\ t < drops[d].claimWindowEnd

\* in this step the call of worker p ends and returns r
Returns(p, r) == r \in res'[p] /\ res'[p] # res[p]

ClaimsOf(d) == {c \in claims : c.dropId = d}

\* C1: the claimed stock of a drop and the number of its claims never exceed its
\* total stock, under any interleaving of the claimDrop transactions of distinct
\* users
C1_NoOverAllocation ==
  \A d \in DOMAIN drops :
    /\ drops[d].claimedStock <= drops[d].totalStock
    /\ Cardinality(ClaimsOf(d)) <= drops[d].totalStock

\* C2: a claimDrop call inside the claim window by a user whose claim exists (made
\* by an earlier call) returns that claim unchanged and changes nothing, also when
\* that claim took the last unit
C2_ClaimIdempotent ==
  [][\A p \in Procs : \A r \in res'[p] :
       (/\ Returns(p, r)
        /\ r.op = "claimDrop" /\ r.dropId = "d1"
        /\ InClaimWindow(r.at, "d1")
        /\ FindClaim(r.userId, "d1") # {})
       => /\ r.kind = "ok"
          /\ r.value = FindClaim(r.userId, "d1")
          /\ UNCHANGED <<claims, drops, waitlist>>]_vars

\* C3: a claimDrop call inside the claim window that ends when the claim of its
\* user exists and stock remains returns that claim and no error, whatever the
\* interleaving with the call that made the claim; there is one claim per user
C3_ConcurrentClaimIdempotent ==
  [][/\ \A p \in Procs : \A r \in res'[p] :
          (/\ Returns(p, r)
           /\ r.op = "claimDrop" /\ r.dropId = "d1"
           /\ InClaimWindow(r.at, "d1")
           /\ FindClaim(r.userId, "d1") # {}
           /\ ~SoldOut(drops["d1"]))
          => /\ r.kind = "ok"
             /\ r.value = FindClaim(r.userId, "d1")
             /\ UNCHANGED <<claims, drops>>
     /\ \A c1 \in claims', c2 \in claims' : Key(c1) = Key(c2) => c1 = c2]_vars

\* C4: inside the claim window with k >= 1 units available, the claimDrop of the
\* waitlisted user of rank k (score descending, then joinedAt ascending) succeeds
\* and that of the user of rank k + 1 fails with NOT_ELIGIBLE and creates no claim
C4_EligibilityBoundary ==
  [][\A p \in Procs : \A r \in res'[p] :
       (/\ Returns(p, r)
        /\ r.op = "claimDrop" /\ r.dropId = "d1"
        /\ InClaimWindow(r.at, "d1")
        /\ FindClaim(r.userId, "d1") = {}
        /\ availableStock(drops["d1"]) >= 1)
       => LET k == availableStock(drops["d1"])
              rank == getWaitlistPosition(r.userId, "d1")
          IN /\ rank = {k} => /\ r.kind = "ok"
                              /\ r.value # {}
                              /\ r.value = {c \in claims' : c.userId = r.userId}
             /\ rank = {k + 1} => /\ r.code = "NOT_ELIGIBLE"
                                  /\ claims' = claims]_vars

\* C5: getWaitlistPosition ranks an entry before every entry of lower score and
\* before every entry of equal score that joined later, a NULL score counting as
\* 0; the rank is the number of entries ranked before it, plus 1; a user without
\* an entry has no rank
RankedBefore(x, y) ==
  \/ ScoreOrZero(x) > ScoreOrZero(y)
  \/ ScoreOrZero(x) = ScoreOrZero(y) /\ x.joinedAt < y.joinedAt

C6_WindowEnforcement ==
  [][\A p \in Procs : \A r \in res'[p] :
       (r.op = "claimDrop" /\ r.dropId = "d1")
       => /\ r.at < drops["d1"].claimWindowStart =>
               /\ r.code = "CLAIM_WINDOW_NOT_STARTED"
               /\ Returns(p, r) => UNCHANGED <<drops, waitlist, claims>>
          /\ r.at >= drops["d1"].claimWindowEnd =>
               /\ r.code = "CLAIM_WINDOW_ENDED"
               /\ Returns(p, r) => UNCHANGED <<drops, waitlist, claims>>]_vars

C6_Witness ==
  \E r \in res["p1"] :
    /\ r.op = "claimDrop" /\ r.code = "CLAIM_WINDOW_ENDED"
    /\ FindClaim(r.userId, "d1") # {}
    /\ ~SoldOut(drops["d1"])
    /\ waitlist # {}

\* C7 (amended): in the scenario, inside the claim window, the claims of the users
\* of rank 1 and 2 succeed in either order; the claim of the user of rank 3 fails
\* with NOT_ELIGIBLE {position: 3, availableStock: 2} when attempted before the
\* others, and with DROP_SOLD_OUT when attempted after the two have succeeded
C7_Scenario ==
  [][\A r \in res'["p1"] :
       (Returns("p1", r) /\ r.op = "claimDrop" /\ InClaimWindow(r.at, "d1"))
       => /\ (r.userId \in {"u1", "u2"} /\ FindClaim(r.userId, "d1") = {})
               => /\ r.kind = "ok" /\ r.isNew
                  /\ r.value = {c \in claims' : c.userId = r.userId}
          /\ (r.userId = "u3" /\ claims = {})
               => r.code = "NOT_ELIGIBLE" /\ r.position = 3 /\ r.availableStock = 2
          /\ (r.userId = "u3" /\ FindClaim("u1", "d1") # {} /\ FindClaim("u2", "d1") # {})
               => r.code = "DROP_SOLD_OUT"]_vars

\* C7 as stated: after the two have succeeded the claim of the user of rank 3
\* fails with NOT_ELIGIBLE {position: 3, availableStock: 0}
C7_ScenarioAsStated ==
  [][\A r \in res'["p1"] :
       (Returns("p1", r) /\ r.op = "claimDrop" /\ InClaimWindow(r.at, "d1"))
       => /\ (r.userId \in {"u1", "u2"} /\ FindClaim(r.userId, "d1") = {})
               => /\ r.kind = "ok" /\ r.isNew
                  /\ r.value = {c \in claims' : c.userId = r.userId}
          /\ (r.userId = "u3" /\ claims = {})
               => r.code = "NOT_ELIGIBLE" /\ r.position = 3 /\ r.availableStock = 2
          /\ (r.userId = "u3" /\ FindClaim("u1", "d1") # {} /\ FindClaim("u2", "d1") # {})
               => r.code = "NOT_ELIGIBLE" /\ r.position = 3 /\ r.availableStock = 0]_vars

C7_Witness ==
  /\ FindClaim("u1", "d1") # {} /\ FindClaim("u2", "d1") # {}
  /\ \E r \in res["p1"] :
       /\ r.op = "claimDrop" /\ r.userId = "u3" /\ InClaimWindow(r.at, "d1")
       /\ r.code = "DROP_SOLD_OUT"

\* C8: completeClaim on a PENDING claim that is past its expiry fails with the
\* expired error, and when it has returned the stored status of the claim is
\* EXPIRED
C8_ExpiredMarked ==
  [][\A p \in Procs : \A r \in res'[p] :
       (/\ Returns(p, r)
        /\ r.op = "completeClaim"
        /\ \E c \in FindClaim(r.userId, r.dropId) : c.status = "PENDING" /\ Expired(r.at, c))
       => /\ r.code = "Claim has expired"
          /\ \A c \in claims' :
               (c.userId = r.userId /\ c.dropId = r.dropId) => c.status = "EXPIRED"]_vars

\* C9: a claim is stored as PENDING first, its status changes only from PENDING to
\* COMPLETED or from PENDING to EXPIRED, and no claim is removed
C9_StatusMonotonic ==
  [][/\ \A c \in claims : \E c2 \in claims' :
          /\ c2.id = c.id
          /\ \/ c2.status = c.status
             \/ c.status = "PENDING" /\ c2.status \in {"COMPLETED", "EXPIRED"}
     /\ \A c2 \in claims' :
          (\A c \in claims : c.id # c2.id) => c2.status = "PENDING"]_vars

C9_Witness ==
  \E c1 \in claims, c2 \in claims : c1.status = "COMPLETED" /\ c2.status = "EXPIRED"

\* C10: every joinWaitlist made in the waitlist phase of the drop succeeds; it
\* returns isNew = true exactly when the user had no entry, the entry it returns is
\* the one entry stored for the user, and no stored entry is changed or removed
C10_JoinIdempotent ==
  [][/\ \A p \in Procs : \A r \in res'[p] :
          (Returns(p, r) /\ r.op = "joinWaitlist" /\ r.dropId = "d1")
          => /\ (drops["d1"].startDate <= r.at /\ r.at < drops["d1"].claimWindowStart)
                  => r.kind = "ok"
             /\ r.kind = "ok"
                  => /\ r.isNew = ({e \in waitlist : e.userId = r.userId /\ e.dropId = "d1"} = {})
                     /\ r.value = {e \in waitlist' : e.userId = r.userId /\ e.dropId = "d1"}
                     /\ Cardinality(r.value) = 1
                     /\ waitlist \subseteq waitlist'
     /\ \A e1 \in waitlist', e2 \in waitlist' : Key(e1) = Key(e2) => e1 = e2]_vars

C10_Witness ==
  \E r \in res["p1"] :
    /\ r.op = "joinWaitlist" /\ r.kind = "ok" /\ ~r.isNew
    /\ r.value = FindEntry(r.userId, "d1")
    /\ \E e \in r.value : e.joinedAt < r.at

\* C11: a leaveWaitlist made on an existing drop before its claim window starts
\* succeeds whether or not the user has an entry; it removes the entry of the user
\* for the drop if there is one and changes nothing else, so on a non-member, and
\* when repeated, it changes nothing
C11_LeaveIdempotent ==
  [][\A r \in res'["p1"] :
       (/\ Returns("p1", r) /\ r.op = "leaveWaitlist"
        /\ r.dropId \in DOMAIN drops
        /\ r.at < drops[r.dropId].claimWindowStart)
       => /\ r.kind = "ok"
          /\ waitlist' = waitlist \ FindEntry(r.userId, r.dropId)
          /\ claims' = claims /\ drops' = drops
          /\ (FindEntry(r.userId, r.dropId) = {} => waitlist' = waitlist)]_vars

C11_Witness ==
  \E r \in res["p1"] :
    /\ r.op = "leaveWaitlist" /\ r.kind = "ok" /\ r.value = {}
    /\ r.at < drops[r.dropId].claimWindowStart
    /\ FindEntry(r.userId, r.dropId) = {}
    /\ \E e \in waitlist : e.userId # r.userId

\* C12: once now >= claimWindowStart, every leaveWaitlist fails and leaves the
\* entry in place, every joinWaitlist by a non-member fails, and the set of the
\* waitlist entries of the drop only shrinks, and only by the entry of a user whose
\* claimDrop succeeded
C12_MembershipFrozen ==
  [][/\ \A r \in res'["p1"] :
          (/\ Returns("p1", r) /\ r.dropId = "d1"
           /\ r.at >= drops["d1"].claimWindowStart)
          => /\ r.op = "leaveWaitlist" => (r.kind = "error" /\ waitlist' = waitlist)
             /\ (r.op = "joinWaitlist" /\ FindEntry(r.userId, "d1") = {})
                  => (r.kind = "error" /\ waitlist' = waitlist)
     /\ now >= drops["d1"].claimWindowStart
          => /\ waitlist' \subseteq waitlist
             /\ \A e \in waitlist \ waitlist' :
                  \E c \in claims' \ claims : c.userId = e.userId /\ c.dropId = e.dropId]_vars

\* C13: joinWaitlist creates an entry only when the drop exists, is active,
\* start <= now < claimWindowStart, now < end and claimedStock < totalStock; when one
\* of these is violated the call fails with the named condition and creates no
\* entry; every stored entry has joinedAt in [start, claimWindowStart)
C13_JoinGate ==
  [][/\ \A r \in res'["p1"] :
          (Returns("p1", r) /\ r.op = "joinWaitlist")
          => /\ r.dropId \notin DOMAIN drops
                  => (r.code = "Drop not found" /\ waitlist' = waitlist)
             /\ r.dropId \in DOMAIN drops
                  => LET drop == drops[r.dropId] IN
                     /\ ~drop.isActive => (r.code = "Drop is not active" /\ waitlist' = waitlist)
                     /\ (drop.isActive /\ r.at < drop.startDate)
                          => (r.code = "Drop has not started yet" /\ waitlist' = waitlist)
                     /\ (drop.isActive /\ r.at >= drop.startDate /\ r.at >= drop.claimWindowStart)
                          => /\ r.code = "Waitlist phase has ended, claim window is active"
                             /\ waitlist' = waitlist
                     /\ (r.kind = "ok" /\ r.isNew)
                          => /\ drop.isActive
                             /\ drop.startDate <= r.at /\ r.at < drop.claimWindowStart
                             /\ r.at < drop.endDate
                             /\ drop.claimedStock < drop.totalStock
     /\ \A e \in waitlist' :
          /\ drops[e.dropId].startDate <= e.joinedAt
          /\ e.joinedAt < drops[e.dropId].claimWindowStart]_vars

\* C14: a successful claimDrop(u, d) is one step that inserts one PENDING claim for
\* (u, d) expiring 24 hours after an instant of the call, increments claimedStock
\* of d by exactly 1 and deletes the waitlist entry of (u, d), and changes nothing
\* else; no step changes claims, drops or removes an entry in any other way
C14_AtomicClaim ==
  [][/\ \A p \in Procs : \A r \in res'[p] :
          (Returns(p, r) /\ r.op = "claimDrop" /\ r.kind = "ok" /\ r.isNew)
          => \E c \in r.value :
               /\ c \notin claims /\ claims' = claims \cup {c}
               /\ c.userId = r.userId /\ c.dropId = r.dropId /\ c.status = "PENDING"
               /\ \E t \in r.at..now : Ms(c.expiresAt) - Ms(t) = 24 * MsPerHour
               /\ drops' = [drops EXCEPT ![r.dropId].claimedStock = @ + 1]
               /\ FindEntry(r.userId, r.dropId) # {}
               /\ waitlist' = waitlist \ FindEntry(r.userId, r.dropId)
     /\ (claims' # claims \/ drops' # drops \/ ~(waitlist \subseteq waitlist'))
          => \E p \in Procs : \E r \in res'[p] :
               Returns(p, r) /\ r.op = "claimDrop" /\ r.kind = "ok" /\ r.isNew]_vars

C14_Witness ==
  \E p \in Procs : \E r \in res[p] :
    /\ r.op = "claimDrop" /\ r.kind = "ok" /\ r.isNew
    /\ r.value \subseteq claims
    /\ FindEntry(r.userId, r.dropId) = {}
    /\ drops[r.dropId].claimedStock = 1
    /\ \E e \in waitlist : e.userId # r.userId /\ e.dropId = r.dropId

\* C15: in every reachable state no user has both a waitlist entry and a claim for
\* the same drop
C15_EntryOrClaim ==
  \A e \in waitlist : \A c \in claims : ~(c.userId = e.userId /\ c.dropId = e.dropId)

C15_Witness ==
  \E c \in claims : \E r \in res["p1"] :
    /\ r.op = "joinWaitlist" /\ r.userId = c.userId /\ r.dropId = c.dropId
    /\ r.at >= c.claimedAt /\ r.kind = "error"
    /\ FindEntry(c.userId, c.dropId) = {}
    /\ waitlist # {}

\* C16: a user whose rank in the waitlist frozen at claimWindowStart (score
\* descending, then joinedAt ascending) is greater than the total stock N never
\* obtains a claim; stated at the first successful claim of the drop, when the
\* stored waitlist is still the frozen one
C16_PriorityOrder ==
  [][\A r \in res'["p1"] :
       (/\ Returns("p1", r)
        /\ r.op = "claimDrop" /\ r.dropId = "d1" /\ r.kind = "ok" /\ r.isNew
        /\ ClaimsOf("d1") = {}
        /\ \A e \in waitlist : e.joinedAt < drops["d1"].claimWindowStart)
       => \A y \in FindEntry(r.userId, "d1") :
            1 + Cardinality({x \in waitlist : x.dropId = "d1" /\ RankedBefore(x, y)})
              <= drops["d1"].totalStock]_vars

\* C17: completeClaim fails with 'Claim not found' and changes nothing when the
\* user has no claim for the drop; on a PENDING claim with now <= expiresAt it sets
\* the status to COMPLETED and changes nothing else; on a COMPLETED claim it
\* returns the claim unchanged at any time, also after expiresAt
C17_CompleteClaim ==
  [][\A p \in Procs : \A r \in res'[p] :
       (Returns(p, r) /\ r.op = "completeClaim")
       => /\ FindClaim(r.userId, r.dropId) = {}
               => /\ r.kind = "error" /\ r.code = "Claim not found"
                  /\ UNCHANGED <<drops, waitlist, claims>>
          /\ \A c \in FindClaim(r.userId, r.dropId) :
               /\ (c.status = "PENDING" /\ r.at <= c.expiresAt)
                    => /\ r.kind = "ok"
                       /\ r.value = {[c EXCEPT !.status = "COMPLETED"]}
                       /\ claims' = (claims \ {c}) \cup r.value
                       /\ UNCHANGED <<drops, waitlist>>
               /\ c.status = "COMPLETED"
                    => /\ r.kind = "ok" /\ r.value = {c}
                       /\ UNCHANGED <<drops, waitlist, claims>>]_vars

C17_Witness ==
  \E p \in Procs : \E r \in res[p] :
    /\ r.op = "completeClaim" /\ r.kind = "ok"
    /\ \E c \in r.value :
         /\ c \in claims /\ c.status = "COMPLETED"
         /\ r.at > c.expiresAt

\* C18: cleanupExpiredClaims sets to EXPIRED exactly the PENDING claims with
\* expiresAt < now and returns their number; it changes no other claim, no drop and
\* no waitlist entry; run again at the same time it changes nothing and returns 0
C18_Cleanup ==
  [][\A r \in res'["p1"] :
       (Returns("p1", r) /\ r.op = "cleanupExpiredClaims")
       => /\ claims' = {IF c.status = "PENDING" /\ c.expiresAt < r.at
                          THEN [c EXCEPT !.status = "EXPIRED"] ELSE c : c \in claims}
          /\ r.updatedCount =
               Cardinality({c \in claims : c.status = "PENDING" /\ c.expiresAt < r.at})
          /\ UNCHANGED <<drops, waitlist>>
          /\ \A r0 \in res["p1"] :
               (r0.op = "cleanupExpiredClaims" /\ r0.at = r.at)
               => (r.updatedCount = 0 /\ claims' = claims)]_vars

C18_Witness ==
  \E r \in res["p1"] :
    /\ r.op = "cleanupExpiredClaims" /\ r.updatedCount = 1
    /\ \E c1 \in claims, c2 \in claims : c1.status = "EXPIRED" /\ c2.status = "COMPLETED"
    /\ drops["d1"].claimedStock = 2
    /\ waitlist # {}

\* C19: the score stored on a new waitlist entry, when a seed is generated, is
\* max(0, 1000 + (signupLatencyMs mod A) + (accountAgeDays mod B) -
\* (rapidActionCount mod C)); it is never negative and lies in
\* [1000 - (C - 1), 1000 + (A - 1) + (B - 1)]
C19_Score ==
  [][\A e \in waitlist' \ waitlist : \A k \in seedData :
       LET signupLatencyMs == Ms(e.joinedAt) - Ms(drops[e.dropId].startDate)
           accountAgeDays == (Ms(e.joinedAt) - Ms(UserCreatedAt[e.userId])) \div MsPerDay
           rapidActionCount ==
             Cardinality({o \in waitlist : o.userId = e.userId /\ o.joinedAt = e.joinedAt})
           score == 1000 + (signupLatencyMs % k.A) + (accountAgeDays % k.B)
                         - (rapidActionCount % k.C)
       IN /\ signupLatencyMs >= 0 /\ accountAgeDays >= 0
          /\ e.priorityScore = {IF score >= 0 THEN score ELSE 0}
          /\ \A s \in e.priorityScore :
               /\ s >= 0
               /\ 1000 - (k.C - 1) <= s
               /\ s <= 1000 + (k.A - 1) + (k.B - 1)]_vars

C19_Witness ==
  \E k \in seedData :
    /\ k.C = 3
    /\ Cardinality({e \in waitlist : e.userId = "u3"}) = 4
    /\ \E e \in waitlist : \E s \in e.priorityScore : s < 1000
    /\ \E e \in waitlist : \E s \in e.priorityScore : s > 1000

\* C20: a failure of scoring never blocks a join: every joinWaitlist of a
\* non-member made on an open drop succeeds and creates the entry, with the score
\* 1000 when no seed is generated, and with the score 1000 or the computed score
\* when the scoring queries can fail
C20_ScoringNeverBlocks ==
  [][\A r \in res'["p1"] :
       (/\ Returns("p1", r) /\ r.op = "joinWaitlist"
        /\ r.dropId \in DOMAIN drops
        /\ JoinGate(r.dropId, r.at) = ""
        /\ FindEntry(r.userId, r.dropId) = {})
       => /\ r.kind = "ok" /\ r.isNew
          /\ waitlist' = waitlist \cup r.value
          /\ \E e \in r.value :
               /\ e.userId = r.userId /\ e.dropId = r.dropId
               /\ e \notin waitlist
               /\ seedData = {} => e.priorityScore = {1000}
               /\ \/ e.priorityScore = {1000}
                  \/ e.priorityScore = {calculatePriorityScore(e.userId, e.dropId, e.joinedAt)}]_vars

C20_Witness ==
  /\ seedData # {}
  /\ \E r \in res["p1"] :
       /\ r.op = "joinWaitlist" /\ r.kind = "ok" /\ r.isNew /\ r.userId = "u1"
       /\ r.value \subseteq waitlist
       /\ \E e \in r.value : e.priorityScore = {1000}

\* C21: the generator memoizes its seed. Once generateSeed has produced a
\* SeedData, every later generateSeed returns that same SeedData whatever its
\* argument and whatever the repository looks like, until reset; getSeedData
\* returns nothing before the first generateSeed and after a reset, and the
\* memoized SeedData otherwise; generateSeed never fails, also where the
\* repository has no remote, no history, or git cannot be run: it then builds
\* the seed from 'local-development' and the commit epoch it could get.
C21_SeedMemoized ==
  [][/\ seedData' # seedData => (seedData = {} \/ seedData' = {})
     /\ (seedData # {} /\ seedData' = {}) =>
          \E p \in Procs : \E r \in res'[p] : r.op = "reset" /\ r.at = now
     /\ \A p \in Procs : \A r \in res'[p] :
          Returns(p, r) =>
            /\ r.op = "generateSeed" =>
                 /\ r.kind = "ok"
                 /\ r.value = seedData' /\ Cardinality(r.value) = 1
                 /\ seedData # {} => seedData' = seedData
                 /\ seedData = {} =>
                      r.value = {NewSeedData(r.startTime, r.env, now)}
                 /\ \A s \in r.value :
                      /\ Len(s.seed) = 12
                      /\ (seedData = {} /\ r.env # "repo") =>
                           s.remoteUrl = "local-development"
            /\ r.op = "getSeedData" => r.value = seedData /\ seedData' = seedData
            /\ r.op = "reset" => seedData' = {}]_vars

\* a second generateSeed, with another argument and at a later instant,
\* returned the SeedData the first one built without repository metadata
C21_Witness ==
  \E r1 \in res["p1"], r2 \in res["p2"] :
    /\ r1.op = "generateSeed" /\ r2.op = "generateSeed"
    /\ r1.env = "noshell" /\ r1.startTime = "" /\ r1.at = 0
    /\ r2.env = "repo" /\ r2.startTime # "" /\ r2.at > 0
    /\ r1.value = r2.value /\ r2.value = seedData /\ seedData # {}

\* C22: for every 12-hex-digit seed the coefficients are within 7..11, 13..19
\* and 3..5; A, B and C are functions of the two-digit windows at offsets 0, 2
\* and 4 (seeds that agree on a window agree on its coefficient); and every
\* value of each range is the coefficient of some seed.
C22_CoefficientRanges ==
  /\ \A r \in res["p1"] :
       r.op = "generateCoefficients" =>
         /\ Len(r.seed) = 12
         /\ r.value.A \in 7..11 /\ r.value.B \in 13..19 /\ r.value.C \in 3..5
         /\ \A tail \in SeedTails, x \in WindowBytes, y \in WindowBytes :
              /\ generateCoefficients(
                   SeedOf(HexWindow(r.seed, 0), x, y, tail)).A = r.value.A
              /\ generateCoefficients(
                   SeedOf(x, HexWindow(r.seed, 2), y, tail)).B = r.value.B
              /\ generateCoefficients(
                   SeedOf(x, y, HexWindow(r.seed, 4), tail)).C = r.value.C
  /\ \A tail \in SeedTails :
       /\ \A a \in 7..11 : \E x \in WindowBytes :
            generateCoefficients(SeedOf(x, 0, 0, tail)).A = a
       /\ \A b \in 13..19 : \E x \in WindowBytes :
            generateCoefficients(SeedOf(0, x, 0, tail)).B = b
       /\ \A c \in 3..5 : \E x \in WindowBytes :
            generateCoefficients(SeedOf(0, 0, x, tail)).C = c

\* the seed with the windows ff, fe, fd got the largest A and B
C22_Witness ==
  \E r \in res["p1"] :
    /\ r.op = "generateCoefficients"
    /\ HexWindow(r.seed, 0) = 254 /\ HexWindow(r.seed, 2) = 255
    /\ HexWindow(r.seed, 4) = 251
    /\ r.value = [A |-> 11, B |-> 16, C |-> 5]

\* C23: a drop is never deleted while it has a waitlist entry or a claim: in
\* the step that deletes a drop, no WaitlistEntry and no Claim of that drop
\* exists, so none is removed together with it.
C23_NoCascade ==
  [][\A d \in DOMAIN drops \ DOMAIN drops' :
       /\ ~\E e \in waitlist : e.dropId = d
       /\ ~\E c \in claims : c.dropId = d]_vars

\* C24: every drop keeps 0 <= claimedStock <= totalStock, and the claimedStock
\* of a drop changes only by +1, in the step in which a claimDrop on that drop
\* succeeds with a new claim.
C24_StockBounds ==
  [][/\ \A d \in DOMAIN drops' :
          0 <= drops'[d].claimedStock /\ drops'[d].claimedStock <= drops'[d].totalStock
     /\ \A d \in DOMAIN drops \cap DOMAIN drops' :
          drops'[d].claimedStock # drops[d].claimedStock =>
            /\ drops'[d].claimedStock = drops[d].claimedStock + 1
            /\ \E p \in Procs : \E r \in res'[p] :
                 /\ Returns(p, r)
                 /\ r.op = "claimDrop" /\ r.dropId = d /\ r.kind = "ok" /\ r.isNew]_vars

\* C25: the rank claimDrop computes for its eligibility check is the rank
\* getWaitlistPosition gives the same user on the same waitlist: the count of
\* the entries with a strictly higher score, plus the count of those with an
\* equal score and an earlier joinedAt, plus 1.
C25_SameRank ==
  [][\A p \in Procs :
       (tx[p].op = "claimDrop" /\ tx[p].pc = "count" /\ tx'[p].pc # "count") =>
         \A e \in tx[p].entry :
           {userPosition(tx[p].dropId, e)} = getWaitlistPosition(tx[p].userId, tx[p].dropId)]_vars

\* C26: with the sweep running beside completeClaim, a claim stored as EXPIRED
\* is never afterwards stored as COMPLETED, and a claim stored as COMPLETED is
\* never afterwards stored as EXPIRED.
C26_SweepSafe ==
  [][\A c \in claims : \A c2 \in claims' :
       c2.id = c.id =>
         /\ c.status = "EXPIRED" => c2.status # "COMPLETED"
         /\ c.status = "COMPLETED" => c2.status # "EXPIRED"]_vars

\* C27: joinWaitlist looks for an existing entry before it validates the drop:
\* a call by a user who has an entry for the drop returns that entry with
\* isNew = false, whatever the state of the drop, and the errors of the
\* eligibility checks go only to users without an entry.
C27_ExistingEntryFirst ==
  [][\A p \in Procs : \A r \in res'[p] :
       (Returns(p, r) /\ r.op = "joinWaitlist" /\ FindEntry(r.userId, r.dropId) # {}) =>
         /\ r.kind = "ok" /\ ~r.isNew
         /\ r.value = FindEntry(r.userId, r.dropId)]_vars

\* C28: a claimDrop transaction that hits a storage conflict with a concurrent
\* transaction is retried by the engine: no caller of claimDrop is given the
\* error of a single conflict (a unique-index violation on the claim a
\* concurrent call inserted, or a delete of a waitlist entry a concurrent call
\* removed).
C28_ConflictRetried ==
  \A p \in Procs : \A r \in res[p] :
    r.op = "claimDrop" => r.code \notin {"P2002", "P2025"}

\* C29: a failing claimDrop leaves the stock of the drop, the waitlist and the
\* claims as they were, and a NOT_ELIGIBLE failure carries the rank and the
\* available stock computed in that call.
C29_FailureChangesNothing ==
  [][\A p \in Procs : \A r \in res'[p] :
       (Returns(p, r) /\ r.op = "claimDrop" /\ r.kind = "error") =>
         /\ drops' = drops /\ waitlist' = waitlist /\ claims' = claims
         /\ r.code \in {"DROP_NOT_FOUND", "DROP_NOT_ACTIVE", "CLAIM_WINDOW_NOT_STARTED",
                        "CLAIM_WINDOW_ENDED", "DROP_SOLD_OUT", "NOT_IN_WAITLIST",
                        "NOT_ELIGIBLE"}
         /\ r.code = "NOT_ELIGIBLE" =>
              /\ \E e \in FindEntry(r.userId, r.dropId) :
                   r.position = 1 + Cardinality({o \in waitlist :
                                      o.dropId = r.dropId /\ ScoreGt(o, ScoreOrZero(e))})
              /\ r.availableStock =
                   drops[r.dropId].totalStock - drops[r.dropId].claimedStock
              /\ r.position > r.availableStock
         /\ r.code # "NOT_ELIGIBLE" => r.position = 0 /\ r.availableStock = 0]_vars

\* a waitlisted user ranked second on a drop with one unit left was refused
C29_Witness ==
  \E r \in res["p1"] :
    /\ r.op = "claimDrop" /\ r.code = "NOT_ELIGIBLE"
    /\ r.position = 2 /\ r.availableStock = 1
    /\ FindEntry(r.userId, r.dropId) # {}
    /\ claims = {}

\* C30 as stated: every claim is created by a claimDrop that found the entry of
\* the user in its transaction, and a claimDrop by a user with neither an entry
\* nor a claim for the drop fails with NOT_IN_WAITLIST and creates no claim.
C30_AsStated ==
  [][/\ \A c \in claims' \ claims :
          \E p \in Procs :
            /\ tx[p].op = "claimDrop" /\ tx[p].pc = "commit" /\ tx'[p].pc = "idle"
            /\ c \in tx[p].claim
            /\ \E e \in tx[p].entry : Key(e) = Key(c)
     /\ \A p \in Procs : \A r \in res'[p] :
          (/\ Returns(p, r) /\ r.op = "claimDrop"
           /\ FindEntry(r.userId, r.dropId) = {} /\ FindClaim(r.userId, r.dropId) = {}) =>
            /\ r.kind = "error" /\ claims' = claims
            /\ r.code = "NOT_IN_WAITLIST"]_vars

\* C30: every claim is created by a claimDrop that found the entry of the user
\* in its transaction; a claimDrop by a user with neither an entry nor a claim
\* for the drop fails and creates no claim, with NOT_IN_WAITLIST when the drop
\* passes the checks that come before the one of the membership, and with the
\* error of the first of those checks that fails otherwise.
C30_ClaimsOnlyToWaitlisted ==
  [][/\ \A c \in claims' \ claims :
          \E p \in Procs :
            /\ tx[p].op = "claimDrop" /\ tx[p].pc = "commit" /\ tx'[p].pc = "idle"
            /\ c \in tx[p].claim
            /\ \E e \in tx[p].entry : Key(e) = Key(c) /\ e \in waitlist
     /\ \A p \in Procs : \A r \in res'[p] :
          (/\ Returns(p, r) /\ r.op = "claimDrop"
           /\ FindEntry(r.userId, r.dropId) = {} /\ FindClaim(r.userId, r.dropId) = {}) =>
            /\ r.kind = "error" /\ claims' = claims
            /\ IF Idle(p) THEN r.code = IF ClaimDropGate(r.dropId, r.at) = ""
                                          THEN "NOT_IN_WAITLIST"
                                          ELSE ClaimDropGate(r.dropId, r.at)
                          ELSE r.code = "NOT_IN_WAITLIST"]_vars

\* in the claim window a user who never joined was refused as not on the
\* waitlist, after a waitlisted user got the claim of the drop
C30_Witness ==
  /\ \E r \in res["p2"] :
       /\ r.op = "claimDrop" /\ r.code = "NOT_IN_WAITLIST" /\ r.userId = "u2"
       /\ FindEntry("u2", r.dropId) = {} /\ FindClaim("u2", r.dropId) = {}
  /\ \E r \in res["p1"] :
       /\ r.op = "claimDrop" /\ r.kind = "ok" /\ r.isNew /\ r.userId = "u1"
       /\ r.value \subseteq claims

\* C31: under concurrent joinWaitlist calls there is at most one WaitlistEntry
\* for each (user, drop) in every state, and exactly one once a call for the
\* pair has ended by returning an entry or by the rejection of its duplicate
\* insert (P2002), which creates no second row.
C31_OneEntry ==
  /\ \A u \in Users, d \in DropIds : Cardinality(FindEntry(u, d)) <= 1
  /\ \A p \in Procs : \A r \in res[p] :
       (r.op = "joinWaitlist" /\ (r.kind = "ok" \/ r.code = "P2002")) =>
         Cardinality(FindEntry(r.userId, r.dropId)) = 1

\* two concurrent joins of u1 ended, one with the new entry and one with P2002
C31_Witness ==
  \E r1 \in res["p1"], r2 \in res["p2"] :
    /\ r1.op = "joinWaitlist" /\ r2.op = "joinWaitlist"
    /\ r1.userId = "u1" /\ r2.userId = "u1"
    /\ r1.kind = "ok" /\ r1.isNew /\ r2.code = "P2002"
    /\ FindEntry("u1", "d1") = r1.value

\* C33: the rapid-action count that scores a join is the number of joins of the
\* same user, over all drops, in the hour up to and including the join being
\* scored, that join counted: the score stored by a new join is the seeded
\* score computed with the count of the user's entries of that hour once the
\* entry is stored (no entry is ever removed in these runs).
C33_RapidActionsCountSelf ==
  [][\A p \in Procs : \A r \in res'[p] :
       (Returns(p, r) /\ r.op = "joinWaitlist" /\ r.kind = "ok" /\ r.isNew /\ seedData # {}) =>
         \A e \in r.value : \A k \in seedData :
           e.priorityScore =
             {Max(0, SeedScore(k, BaseScore,
                     Max(0, Ms(e.joinedAt) - Ms(drops[e.dropId].startDate)),
                     (Ms(e.joinedAt) - Ms(UserCreatedAt[e.userId])) \div MsPerDay,
                     Cardinality({x \in waitlist' :
                                    /\ x.userId = e.userId
                                    /\ Ms(x.joinedAt) >= Ms(e.joinedAt) - MsPerHour
                                    /\ Ms(x.joinedAt) <= Ms(e.joinedAt)})))}]_vars

\* the score calculatePriorityScore gives the entry e when the entries stored
\* before it are those of prior
ScoreAfter(e, prior) ==
  LET k == CHOOSE x \in seedData : TRUE IN
    Max(0, SeedScore(k, BaseScore,
             Max(0, Ms(e.joinedAt) - Ms(drops[e.dropId].startDate)),
             (Ms(e.joinedAt) - Ms(UserCreatedAt[e.userId])) \div MsPerDay,
             Cardinality({x \in prior : /\ x.userId = e.userId
                                        /\ Ms(x.joinedAt) >= Ms(e.joinedAt) - MsPerHour
                                        /\ Ms(x.joinedAt) <= Ms(e.joinedAt)})))

\* C32: joinWaitlist is atomic with respect to concurrent joins: the entries
\* and the scores stored by concurrent joins are those of the same joins run
\* one after another in some order, each scored against the entries of the
\* joins before it in that order.
C32_JoinsSerializable ==
  seedData # {} =>
    \E f \in [waitlist -> 1..Cardinality(waitlist)] :
      /\ \A e1 \in waitlist, e2 \in waitlist : f[e1] = f[e2] => e1 = e2
      /\ \A e \in waitlist :
           e.priorityScore = {ScoreAfter(e, {x \in waitlist : f[x] < f[e]})}

\* C34: the claimedStock of a drop created with claimedStock 0 and never
\* updated by an administrator is the number of the Claim rows of the drop, of
\* any status, in every state of any interleaving of claimDrop, completeClaim
\* and cleanupExpiredClaims.
C34_StockCountsClaims ==
  \A d \in DOMAIN drops : drops[d].claimedStock = Cardinality(ClaimsOf(d))

\* two units claimed, one claim completed and the other expired
C34_Witness ==
  /\ drops["d1"].claimedStock = 2
  /\ \E c1 \in ClaimsOf("d1"), c2 \in ClaimsOf("d1") :
       c1.status = "COMPLETED" /\ c2.status = "EXPIRED"

\* C35: eligibility is stable in the claim window: a waitlisted user whose rank
\* computed by claimDrop is within the available stock stays so, and the drop
\* is not sold out for them, after a successful claim of another user.
C35_EligibilityStable ==
  [][\A p \in Procs : \A r \in res'[p] :
       (Returns(p, r) /\ r.op = "claimDrop" /\ r.kind = "ok" /\ r.isNew) =>
         \A e \in waitlist :
           (/\ e.dropId = r.dropId /\ e.userId # r.userId
            /\ userPosition(e.dropId, e) <= availableStock(drops[e.dropId])) =>
             /\ e \in waitlist'
             /\ ~SoldOut(drops'[e.dropId])
             /\ 1 + Cardinality({o \in waitlist' : o.dropId = e.dropId
                                                   /\ ScoreGt(o, ScoreOrZero(e))})
                  <= availableStock(drops'[e.dropId])]_vars

\* C36: the claim phase makes progress. In every state inside the claim window
\* in which the drop is active, has stock left and has a waitlist, the rank of
\* some waitlisted user is within the available stock, so that user's claimDrop
\* succeeds; and when every waitlisted user keeps calling claimDrop while the
\* window is open, the drop is eventually sold out or its waitlist is empty.
C36_Progress ==
  /\ [](\A d \in DOMAIN drops :
          (/\ ClaimDropGate(d, now) = ""
           /\ \E e \in waitlist : e.dropId = d) =>
            \E e \in waitlist :
              /\ e.dropId = d
              /\ userPosition(d, e) <= availableStock(drops[d]))
  /\ <>(SoldOut(drops["d1"]) \/ ~\E e \in waitlist : e.dropId = "d1")

\* two units and three waitlisted users: the drop was sold out by two claims
\* with a user left on the waitlist
C36_Witness ==
  /\ drops["d1"].totalStock = 2 /\ SoldOut(drops["d1"])
  /\ Cardinality(ClaimsOf("d1")) = 2
  /\ Cardinality({e \in waitlist : e.dropId = "d1"}) = 1

\* C37: getClaimStatus and getUserClaims report a claim stored as COMPLETED as
\* COMPLETED at every time, also after expiresAt, and leave the stored claims
\* as they are.
C37_CompletedReported ==
  [][\A p \in Procs : \A r \in res'[p] :
       (Returns(p, r) /\ r.op \in {"getClaimStatus", "getUserClaims"}) =>
         /\ claims' = claims
         /\ \A v \in r.value : \A c \in claims :
              (c.id = v.id /\ c.status = "COMPLETED") => v.status = "COMPLETED"]_vars

\* C38: getWaitlist lists the entries of a drop in the order of
\* getWaitlistPosition: the position of each listed entry is the rank
\* getWaitlistPosition gives its user in the same state, total is the number of
\* the entries of the drop, and two pages of one page size share no entry.
C38_ListMatchesPosition ==
  /\ \A p \in Procs : \A r \in res[p] :
       r.op = "getWaitlist" =>
         /\ r.total = Cardinality({e \in waitlist : e.dropId = r.dropId})
         /\ \A v \in r.value : {v.position} = getWaitlistPosition(v.userId, r.dropId)
  /\ \A r1 \in res["p1"], r2 \in res["p2"] :
       (/\ r1.op = "getWaitlist" /\ r2.op = "getWaitlist"
        /\ r1.limit = r2.limit /\ r1.page # r2.page) =>
         {v.userId : v \in r1.value} \cap {v.userId : v \in r2.value} = {}

\* C39: the claim endpoint answers 201 with 'Successfully claimed drop' exactly
\* when the call created the claim, and 200 with 'Drop already claimed' exactly
\* when the call returned a claim that existed, whatever the time between the
\* claim and the retry.
C39_StatusTellsNew ==
  \A p \in Procs : \A r \in res[p] :
    r.op = "claimResponse" =>
      /\ r.statusCode = 201 <=> r.isNew
      /\ r.statusCode = 200 <=> ~r.isNew
      /\ r.message = "Successfully claimed drop" <=> r.isNew

====
